---- MODULE Spec2Model ----
(***************************************************************************)
(* State-machine model of the desktop front-end's scan-progress and quota  *)
(* reconciliation: the scan store (stores/scan), the products store        *)
(* (stores/products), the Tauri event ingress (useTauriEvents) and the     *)
(* debounced realtime quota refresh (useSupabaseRealtime).                 *)
(***************************************************************************)
EXTENDS Integers, Sequences, FiniteSets, TLC

----------------------------------------------------------------------------
(* Bounds of the model.                                                    *)

\* the task count of a platform in the progress snapshots of event sequences
MaxCount == 1
\* largest ordinary per-platform counter of a payload folded on its own
MaxFoldCount == 2
\* largest countdown value carried by an event
MaxCountdown == 1
\* check_daily_usage commands that may be in flight together
MaxRequests == 3
\* largest quota counter a check_daily_usage response carries
MaxUsage == 1
\* calls of setupEventListeners
MaxSetupCalls == 2
\* change notifications that reach debouncedRefresh
MaxNotifications == 3
\* the last instant of the clock, in units of 100 ms
MaxTime == 9
\* the cancel_scan commands in flight
MaxCancels == 1
\* the scans the backend begins
MaxScans == 2
\* the scan events in flight
MaxPending == 1
\* the prompts of a product
MaxPrompts == 1
\* the get_schedule_info commands in flight
MaxScheduleWaits == 1
\* the characters before and after the word in an error message
MaxPad == 1
\* the small counters of growing progress reports
MaxGrowingCount == 1

----------------------------------------------------------------------------
(* JavaScript values.                                                      *)

\* a property that is absent from an object (reads as undefined)
Undefined == -3
\* the value null
Null == -2

\* the platform ids known to the platforms store (DEFAULT_PLATFORMS, cut to two)
PlatformIds == {"chatgpt", "claude"}

\* x || 0 on a counter: undefined (and 0) read as 0
OrZero(x) == IF x = Undefined THEN 0 ELSE x

----------------------------------------------------------------------------
(* IEEE-754 binary64 arithmetic on non-negative values, as the JavaScript  *)
(* engine evaluates (a / b) * 50 + (c / b) * 50 and Math.round.            *)
(* A double is [m |-> bits, e |-> k]: the 53 mantissa bits, most           *)
(* significant first (the first is 1), standing for the integer they spell *)
(* times 2^k; zero is the empty mantissa.                                  *)

MantissaBits == 53

FloatZero == [m |-> <<>>, e |-> 0]

RECURSIVE IntBits(_)
\* the binary digits of a small n >= 0, most significant first, no leading zero
IntBits(n) == IF n = 0 THEN <<>> ELSE Append(IntBits(n \div 2), n % 2)

RECURSIVE BitsToInt(_)
\* the integer a short bit sequence spells
BitsToInt(bits) ==
  IF bits = <<>> THEN 0
  ELSE 2 * BitsToInt(SubSeq(bits, 1, Len(bits) - 1)) + bits[Len(bits)]

Zeros(n) == [i \in 1..n |-> 0]

\* bits + 1, of the same length (bits holds a zero): the last zero becomes
\* one and the ones after it zero
Increment(bits) ==
  LET j == CHOOSE i \in 1..Len(bits) :
             bits[i] = 0 /\ \A k \in (i + 1)..Len(bits) : bits[k] = 1
  IN [i \in 1..Len(bits) |-> IF i < j THEN bits[i] ELSE IF i = j THEN 1 ELSE 0]

\* Round an exact value, given by its significant bits (leading bit 1), the
\* exponent e of its last bit and whether non-zero bits were cut off after
\* them (sticky), to 53 bits, ties to even.
RoundToDouble(bits, sticky, e) ==
  LET L == Len(bits) IN
  IF L = 0 THEN FloatZero
  ELSE IF L <= MantissaBits
  THEN [m |-> bits \o Zeros(MantissaBits - L), e |-> e - (MantissaBits - L)]
  ELSE
    LET keep  == SubSeq(bits, 1, MantissaBits)
        guard == bits[MantissaBits + 1]
        rest  == sticky \/ \E i \in (MantissaBits + 2)..L : bits[i] = 1
        up    == guard = 1 /\ (rest \/ keep[MantissaBits] = 1)
        e2    == e + (L - MantissaBits)
    IN IF ~up THEN [m |-> keep, e |-> e2]
       ELSE IF \A i \in 1..MantissaBits : keep[i] = 1
            THEN [m |-> <<1>> \o Zeros(MantissaBits - 1), e |-> e2 + 1]
            ELSE [m |-> Increment(keep), e |-> e2]

RECURSIVE DivBits(_, _)
\* long division: n more fraction bits of st.r / b (0 <= st.r < b);
\* st = [n, r, out] holds the bits still to produce, the remainder and the
\* bits so far
DivBits(b, st) ==
  IF st.n = 0 THEN [bits |-> st.out, r |-> st.r]
  ELSE LET bit == IF 2 * st.r >= b THEN 1 ELSE 0
       IN DivBits(b, [n |-> st.n - 1, r |-> 2 * st.r - bit * b,
                      out |-> Append(st.out, bit)])

RECURSIVE LeadingZeros(_, _)
\* the number of zero fraction bits of r / b (0 < r < b) before its first one
LeadingZeros(r, b) == IF 2 * r >= b THEN 0 ELSE 1 + LeadingZeros(2 * r, b)

\* a / b for integers a >= 0, b > 0: the quotient's integer bits, then
\* fraction bits up to 54 significant ones (53 and the guard bit)
FloatDiv(a, b) ==
  IF a = 0 THEN FloatZero
  ELSE LET int == IntBits(a \div b)
           r   == a % b
           z   == IF int = <<>> /\ r # 0 THEN LeadingZeros(r, b) ELSE 0
           n   == z + (MantissaBits + 1) - Len(int)
           q   == DivBits(b, [n |-> n, r |-> r, out |-> <<>>])
       IN RoundToDouble(int \o SubSeq(q.bits, z + 1, n), q.r # 0, -n)

RECURSIVE MulBits(_, _, _)
\* bits * k, from the last bit to the first; st = [i, carry, out] holds the
\* next bit to multiply, the carry into it and the product bits so far
MulBits(bits, k, st) ==
  IF st.i = 0 THEN IntBits(st.carry) \o st.out
  ELSE LET v == bits[st.i] * k + st.carry
       IN MulBits(bits, k, [i |-> st.i - 1, carry |-> v \div 2,
                            out |-> <<v % 2>> \o st.out])

\* x * k for a double x and a small integer k > 0
FloatMul(x, k) ==
  IF x.m = <<>> THEN FloatZero
  ELSE RoundToDouble(MulBits(x.m, k, [i |-> Len(x.m), carry |-> 0, out |-> <<>>]),
                     FALSE, x.e)

RECURSIVE AddBits(_, _, _)
\* a + b (of equal length), from the last bit to the first; st as in MulBits
AddBits(a, b, st) ==
  IF st.i = 0 THEN IntBits(st.carry) \o st.out
  ELSE LET v == a[st.i] + b[st.i] + st.carry
       IN AddBits(a, b, [i |-> st.i - 1, carry |-> v \div 2,
                         out |-> <<v % 2>> \o st.out])

\* x + y
FloatAdd(x, y) ==
  IF x.m = <<>> THEN y
  ELSE IF y.m = <<>> THEN x
  ELSE LET e  == IF x.e < y.e THEN x.e ELSE y.e
           xa == x.m \o Zeros(x.e - e)
           ya == y.m \o Zeros(y.e - e)
           L  == IF Len(xa) > Len(ya) THEN Len(xa) ELSE Len(ya)
           xb == Zeros(L - Len(xa)) \o xa
           yb == Zeros(L - Len(ya)) \o ya
       IN RoundToDouble(AddBits(xb, yb, [i |-> L, carry |-> 0, out |-> <<>>]),
                        FALSE, e)

\* Math.round(x), x >= 0 and below 2^30: the nearest integer, a tie going up
MathRound(x) ==
  IF x.m = <<>> THEN 0
  ELSE LET n == MantissaBits + x.e     \* number of integer bits
       IN IF x.e >= 0 THEN BitsToInt(x.m \o Zeros(x.e))
          ELSE IF n < 0 THEN 0
          ELSE BitsToInt(SubSeq(x.m, 1, n)) + x.m[n + 1]

----------------------------------------------------------------------------
(* State.                                                                  *)

VARIABLES
  \* scan store (stores/scan)
  isScanning, isStarting, phase, progress, countdownSeconds, platforms,
  lastResult,
  \* ui store
  currentView,
  \* products store: the quota snapshot, and the check_daily_usage
  \* commands issued by loadDailyUsage that have not settled yet
  dailyUsage, usageRequests, selectedProductId,
  \* regions store
  platformAuthStatus,
  \* scan:progress events emitted by the backend and not yet delivered,
  \* and check_daily_usage responses sent and not yet delivered
  eventQueue, usageReplies,
  \* useTauriEvents: the module flag, where each call of
  \* setupEventListeners stands, and the handlers registered per event
  listenersSetup, setupCalls, handlers,
  \* useSupabaseRealtime: module state, the runtime's pending timeouts, the
  \* clock (units of 100 ms), and the notifications, refreshes and
  \* cancellations so far with their times
  promptResultsChannel, refreshTimer, realtimeSetup, timers, timerSeq, now,
  timeline,
  \* ui store: the message modal and the auth-required modal, and the
  \* regions the auth-required modal lists
  modals, authRequiredData,
  \* products store: the prompt count and the schedule of the selected
  \* product
  promptCount, scheduleInfo,
  \* startScan: the await the call in progress stands at, its locals (the
  \* availableTests it read and the request it passed to start_scan), and
  \* the backend commands it has invoked since it began
  startScanPc, startScanFrame, invoked,
  \* the cancel_scan commands in flight and how the last one settled;
  \* the handleComplete calls awaiting loadScheduleInfo
  cancelRequests, scheduleWaits,
  \* scan events emitted and not yet delivered, each with the number of the
  \* scan it belongs to; the scans startScan has begun; those cancelled
  pendingEvents, scanSeq, cancelledScans

scanVars  == <<isScanning, isStarting, phase, progress, countdownSeconds,
               platforms, lastResult>>
uiVars    == <<currentView>>
quotaVars == <<dailyUsage, usageRequests>>
gateVars  == <<selectedProductId, platformAuthStatus>>
queueVars == <<eventQueue, usageReplies>>
listenerVars == <<listenersSetup, setupCalls, handlers>>
realtimeVars == <<promptResultsChannel, refreshTimer, realtimeSetup, timers,
                  timerSeq, now, timeline>>

sessionVars == <<modals, authRequiredData, promptCount, scheduleInfo,
                 startScanPc,
                 startScanFrame, invoked, cancelRequests, scheduleWaits,
                 pendingEvents, scanSeq, cancelledScans>>

vars == <<scanVars, uiVars, quotaVars, gateVars, queueVars, listenerVars,
          realtimeVars, sessionVars>>

----------------------------------------------------------------------------
(* Scan store.                                                             *)

\* payload.phase absent (or empty): falsy in `if (progressData.phase)`
NoPhase == ""

\* the phase values events carry in this model
EventPhases == {"collecting"}

\* status tag of a platform entry in a payload
EventStatuses == {"collecting"}

\* the ids the platforms store holds once loaded
platformIds == PlatformIds

\* the largest counter a payload of this model carries, and the largest sum
LargestCounter == IF MaxCount > MaxFoldCount THEN MaxCount
                  ELSE IF MaxFoldCount > 10 THEN MaxFoldCount ELSE 10
MaxSum == Cardinality(PlatformIds) * LargestCounter

\* (count / totalTasks) * 50, tabulated once over the sums that occur
HalfShare ==
  [t \in 1..MaxSum |-> [n \in 0..MaxSum |-> FloatMul(FloatDiv(n, t), 50)]]

\* a fold that weighs submissions alone for the whole bar
OverallProgressSubmittedOnly(totalSubmitted, totalCollected, totalTasks) ==
  LET submissionProgress == HalfShare[totalTasks][totalSubmitted]
  IN MathRound(FloatAdd(submissionProgress, submissionProgress))

\* a fold that counts what is still to be collected
OverallProgressOfPending(totalSubmitted, totalCollected, totalTasks) ==
  LET submissionProgress == HalfShare[totalTasks][totalSubmitted]
      collectionProgress == HalfShare[totalTasks][totalTasks - totalCollected]
  IN MathRound(FloatAdd(submissionProgress, collectionProgress))

\* the overall percentage updateProgress computes when totalTasks > 0
OverallProgress(totalSubmitted, totalCollected, totalTasks) ==
  LET submissionProgress == HalfShare[totalTasks][totalSubmitted]
      collectionProgress == HalfShare[totalTasks][totalCollected]
  IN MathRound(FloatAdd(submissionProgress, collectionProgress))

\* OverallProgress tabulated once over the sums that occur
ProgressTable ==
  [t \in 1..MaxSum |-> [s \in 0..MaxSum |-> [c \in 0..MaxSum |->
     OverallProgress(s, c, t)]]]

RECURSIVE SumOver(_, _, _)
\* the fold of `for (const state of Object.values(map))` over one counter
SumOver(map, ids, field) ==
  IF ids = {} THEN 0
  ELSE LET id == CHOOSE i \in ids : TRUE
       IN OrZero(map[id][field]) + SumOver(map, ids \ {id}, field)

TotalOf(map, field) == SumOver(map, DOMAIN map, field)

\* resetProgress: every known platform pending with zero counters
ResetStates ==
  [id \in platformIds |->
     [status |-> "pending", total |-> 0, submitted |-> 0, collected |-> 0]]

\* the progress value after updateProgress(progressData)
ProgressAfter(progressData, before) ==
  IF progressData.hasPlatforms
  THEN LET totalSubmitted == TotalOf(progressData.platforms, "submitted")
           totalCollected == TotalOf(progressData.platforms, "collected")
           totalTasks     == TotalOf(progressData.platforms, "total")
       IN IF totalTasks > 0
          THEN ProgressTable[totalTasks][totalSubmitted][totalCollected]
          ELSE before
  ELSE before

\* a handler that merges the payload's entries into the stored map
PlatformsAfterMerge(progressData, before) ==
  IF progressData.hasPlatforms
  THEN [id \in DOMAIN before \cup DOMAIN progressData.platforms |->
          IF id \in DOMAIN progressData.platforms
          THEN progressData.platforms[id] ELSE before[id]]
  ELSE before

\* the platform-state map after updateProgress(progressData)
PlatformsAfter(progressData, before) ==
  IF progressData.hasPlatforms THEN progressData.platforms ELSE before

\* a handler that tests the countdown field for truthiness
CountdownAfterTruthy(progressData, before) ==
  IF progressData.countdownSeconds \notin {Undefined, Null, 0}
  THEN progressData.countdownSeconds
  ELSE before

\* the countdown after updateProgress(progressData)
CountdownAfter(progressData, before) ==
  IF progressData.countdownSeconds # Undefined
  THEN progressData.countdownSeconds
  ELSE before

\* the phase after updateProgress(progressData)
PhaseAfter(progressData, before) ==
  IF progressData.phase # NoPhase THEN progressData.phase ELSE before

\* updateProgress(progressData)
UpdateProgress(progressData) ==
  /\ phase' = PhaseAfter(progressData, phase)
  /\ platforms' = PlatformsAfter(progressData, platforms)
  /\ progress' = ProgressAfter(progressData, progress)
  /\ countdownSeconds' = CountdownAfter(progressData, countdownSeconds)
  /\ UNCHANGED <<isScanning, isStarting, lastResult>>

\* a reset that keeps the result of the last scan
ResetProgressKeepsResult ==
  /\ progress' = 0
  /\ phase' = "initializing"
  /\ countdownSeconds' = Null
  /\ lastResult' = lastResult
  /\ platforms' = ResetStates

\* resetProgress()
ResetProgress ==
  /\ progress' = 0
  /\ phase' = "initializing"
  /\ countdownSeconds' = Null
  /\ lastResult' = <<>>
  /\ platforms' = ResetStates

\* PHASE_DISPLAY_TEXT: the labels of the known phases
PHASE_DISPLAY_TEXT ==
  [initializing |-> "Initializing...",
   submitting   |-> "Submitting prompts...",
   waiting      |-> "Waiting for responses...",
   collecting   |-> "Collecting responses...",
   complete     |-> "Complete",
   cancelled    |-> "Cancelled"]

\* what an object literal inherits: a member of Object.prototype, as the
\* template renders it
ObjectPrototype == [constructor |-> "function Object() { [native code] }"]

\* PHASE_DISPLAY_TEXT[key], the empty text standing for undefined
PhaseLabel(key) ==
  IF key \in DOMAIN PHASE_DISPLAY_TEXT THEN PHASE_DISPLAY_TEXT[key]
  ELSE IF key \in DOMAIN ObjectPrototype THEN ObjectPrototype[key]
  ELSE ""

\* a display text that falls back to the generic label at once
phaseDisplayTextGeneric ==
  IF PhaseLabel(phase) # "" THEN PhaseLabel(phase) ELSE "Processing..."

\* phaseDisplayText
phaseDisplayText ==
  IF PhaseLabel(phase) # "" THEN PhaseLabel(phase)
  ELSE IF phase # "" THEN phase
  ELSE "Processing..."

\* what the scanning view renders of the countdown: the block is shown
\* (v-if) unless the stored value is null, and shows the stored value
CountdownShown == countdownSeconds # Null
CountdownText  == countdownSeconds

----------------------------------------------------------------------------
(* Payloads.                                                               *)

\* a snapshot entry as the backend reports it while a scan runs: every
\* counter is 0 or the platform's task count
SnapshotCounters == {0, MaxCount}
SnapshotStates ==
  {e \in [status : EventStatuses, total : SnapshotCounters,
          submitted : SnapshotCounters, collected : SnapshotCounters] :
     e.collected <= e.submitted /\ e.submitted <= e.total}

\* any entry: counters may be missing or exceed the total
FoldCounters == {Undefined} \cup (0..MaxFoldCount) \cup {10}
FoldStates ==
  [status : EventStatuses, total : FoldCounters, submitted : FoldCounters,
   collected : FoldCounters]

MapsOver(states) ==
  UNION {[ids -> states] : ids \in SUBSET PlatformIds}

CountdownValues == {Undefined, Null} \cup (0..MaxCountdown)

NoPlatforms(ph, cd) ==
  [phase |-> ph, hasPlatforms |-> FALSE, platforms |-> <<>>,
   countdownSeconds |-> cd]

\* the scan:progress payloads of event sequences
ProgressPayloads ==
  {[phase |-> ph, hasPlatforms |-> TRUE, platforms |-> m,
    countdownSeconds |-> cd] :
     ph \in EventPhases \cup {NoPhase}, m \in MapsOver(SnapshotStates),
     cd \in CountdownValues}
  \cup {NoPlatforms(ph, cd) :
          ph \in EventPhases \cup {NoPhase}, cd \in CountdownValues}

\* the scan:progress payloads folded on their own
FoldPayloads ==
  {[phase |-> ph, hasPlatforms |-> TRUE, platforms |-> m,
    countdownSeconds |-> Undefined] :
     ph \in EventPhases, m \in MapsOver(FoldStates)}

----------------------------------------------------------------------------
(* Products store.                                                         *)

\* the quota snapshot a new products store holds
InitialUsage ==
  [current |-> 0, limit |-> 30, remaining |-> 30, effectiveRemaining |-> 30,
   pendingEvaluations |-> 0, isUnlimited |-> FALSE, plan |-> "free"]

\* no product selected (null), and the products of the model
NoProduct == ""
ProductIds == {"p1"}

\* a response without a plan (undefined or empty: falsy)
NoPlan == ""

\* the check_daily_usage responses of the model: a counter is a number or
\* absent, isUnlimited a boolean or absent
UsageCounts == {Undefined, 0, MaxUsage}
UsageLimits == {Undefined, -1, 0, MaxUsage}
UsageResponses ==
  {u \in [current : UsageCounts, limit : UsageLimits, remaining : UsageCounts,
          effectiveRemaining : UsageCounts, pendingEvaluations : UsageCounts,
          hasIsUnlimited : BOOLEAN, isUnlimited : BOOLEAN,
          plan : {NoPlan, "pro"}] :
     ~u.hasIsUnlimited => ~u.isUnlimited}

\* the responses that carry every field
FullResponses ==
  {u \in UsageResponses :
     /\ Undefined \notin {u.current, u.limit, u.remaining,
                           u.effectiveRemaining, u.pendingEvaluations}
     /\ u.hasIsUnlimited
     /\ u.plan # NoPlan}

\* the snapshot loadDailyUsage builds from the response usage
UsageAfter(usage) ==
  [current |-> OrZero(usage.current),
   limit |-> IF usage.limit \in {Undefined, 0} THEN 5 ELSE usage.limit,
   remaining |-> OrZero(usage.remaining),
   effectiveRemaining |->
     IF usage.effectiveRemaining \notin {Undefined, Null}
     THEN usage.effectiveRemaining
     ELSE IF usage.remaining \notin {Undefined, Null}
          THEN usage.remaining
          ELSE 30,
   pendingEvaluations |->
     IF usage.pendingEvaluations \notin {Undefined, Null}
     THEN usage.pendingEvaluations
     ELSE 0,
   isUnlimited |-> (usage.hasIsUnlimited /\ usage.isUnlimited) \/ usage.limit = -1,
   plan |-> IF usage.plan # NoPlan THEN usage.plan ELSE "free"]

\* availableTests: effectiveRemaining ?? remaining
availableTests ==
  IF dailyUsage.effectiveRemaining \notin {Undefined, Null}
  THEN dailyUsage.effectiveRemaining
  ELSE dailyUsage.remaining

\* loadDailyUsage() up to its await: the command is issued
LoadDailyUsageCall ==
  /\ usageRequests < MaxRequests
  /\ usageRequests' = usageRequests + 1
  /\ UNCHANGED dailyUsage

\* loadDailyUsage() after its await, the command resolved with usage
ApplyUsage(usage) ==
  /\ usageRequests > 0
  /\ usageRequests' = usageRequests - 1
  /\ dailyUsage' = UsageAfter(usage)

\* loadDailyUsage(), the command resolved with usage
LoadDailyUsageResolved(usage) ==
  /\ ApplyUsage(usage)
  /\ UNCHANGED <<selectedProductId, scanVars, uiVars, platformAuthStatus,
                 queueVars, listenerVars, realtimeVars,
                 sessionVars>>

\* a catch block that falls back to the snapshot of a new store
FailedUsageReset(before) == InitialUsage

\* the snapshot loadDailyUsage holds after the command failed
FailedUsage(before) == before

\* loadDailyUsage(), the command rejected: logged, the snapshot kept
LoadDailyUsageRejected ==
  /\ usageRequests > 0
  /\ usageRequests' = usageRequests - 1
  /\ dailyUsage' = FailedUsage(dailyUsage)
  /\ UNCHANGED <<selectedProductId, scanVars, uiVars,
                 platformAuthStatus, queueVars, listenerVars, realtimeVars,
                 sessionVars>>

\* selectProduct(productId): the selection is stored and, after the
\* product's config and regions were loaded, the quota is refreshed
SelectProduct(productId) ==
  /\ selectedProductId' = productId
  /\ LoadDailyUsageCall
  /\ UNCHANGED <<scanVars, uiVars, platformAuthStatus, queueVars,
                 listenerVars, realtimeVars,
                 sessionVars>>

----------------------------------------------------------------------------
(* Regions store and the scan-start gates.                                 *)

\* the region:platform keys of the model
AuthKeys == {"local:chatgpt"}

\* hasAnyAuth()
hasAnyAuth == \E key \in DOMAIN platformAuthStatus : platformAuthStatus[key]

\* canScan of ScanControls
ScanControlsCanScan ==
  /\ selectedProductId # NoProduct
  /\ hasAnyAuth
  /\ availableTests > 0
  /\ ~isScanning

\* canScan of MainView
MainViewCanScan == dailyUsage.isUnlimited \/ availableTests > 0

\* the quota check of startScan stops the start
StartScanQuotaExhausted == ~dailyUsage.isUnlimited /\ availableTests <= 0

----------------------------------------------------------------------------
(* Event handlers (useTauriEvents).                                        *)

\* the listener of scan:started
OnScanStarted ==
  /\ IF ~isScanning
     THEN /\ isScanning' = TRUE
          /\ ResetProgress
          /\ currentView' = "scanning"
          /\ UNCHANGED isStarting
     ELSE UNCHANGED <<scanVars, uiVars>>
  /\ LoadDailyUsageCall

\* scan:started
ScanStarted ==
  /\ OnScanStarted
  /\ UNCHANGED <<gateVars, queueVars, listenerVars, realtimeVars,
                 sessionVars>>

\* scan:progress, delivered with payload p
ScanProgress(p) ==
  /\ UpdateProgress(p)
  /\ UNCHANGED <<uiVars, quotaVars, gateVars, queueVars, listenerVars,
                 realtimeVars,
                 sessionVars>>

\* scan:countdown: setCountdown(seconds)
ScanCountdown(seconds) ==
  /\ countdownSeconds' = seconds
  /\ UNCHANGED <<isScanning, isStarting, phase, progress, platforms,
                 lastResult, uiVars, quotaVars, gateVars, queueVars,
                 listenerVars, realtimeVars,
                 sessionVars>>

\* platform-auth-changed
PlatformAuthChanged(key, authenticated) ==
  /\ platformAuthStatus' =
       [k \in DOMAIN platformAuthStatus \cup {key} |->
          IF k = key THEN authenticated ELSE platformAuthStatus[k]]
  /\ UNCHANGED <<scanVars, uiVars, quotaVars, selectedProductId, queueVars,
                 listenerVars, realtimeVars,
                 sessionVars>>

\* scan:progress, delivered from the queue of emitted events
DeliverProgress ==
  /\ eventQueue # <<>>
  /\ UpdateProgress(Head(eventQueue))
  /\ eventQueue' = Tail(eventQueue)
  /\ UNCHANGED <<uiVars, quotaVars, gateVars, usageReplies, listenerVars,
                 realtimeVars,
                 sessionVars>>

\* loadDailyUsage(), the command resolved with the response at the head of
\* the queue of responses
DeliverUsage ==
  /\ usageReplies # <<>>
  /\ ApplyUsage(Head(usageReplies))
  /\ usageReplies' = Tail(usageReplies)
  /\ UNCHANGED <<scanVars, uiVars, gateVars, eventQueue, listenerVars,
                 realtimeVars,
                 sessionVars>>

\* the place of a response that has arrived
Arrived == <<>>

\* loadDailyUsage(), the i-th of the commands in flight (in the order of
\* their issue) resolved: the responses arrive in any order
SettleUsage(i) ==
  /\ i \in DOMAIN usageReplies
  /\ usageReplies[i] # Arrived
  /\ ApplyUsage(usageReplies[i])
  /\ usageReplies' = [usageReplies EXCEPT ![i] = Arrived]
  /\ UNCHANGED <<scanVars, uiVars, gateVars, eventQueue, listenerVars,
                 realtimeVars, sessionVars>>

----------------------------------------------------------------------------
(* Registration of the event handlers (setupEventListeners).               *)

\* the events, in the order setupEventListeners subscribes to them
EventNames ==
  <<"scan:started", "scan:progress", "scan:complete", "scan:error",
    "scan:countdown", "platform-auth-changed", "auth:success", "paa:progress">>

EventSet == {EventNames[k] : k \in DOMAIN EventNames}

\* the calls of setupEventListeners
SetupCalls == 1..MaxSetupCalls

\* where a call stands: not made yet, awaiting its k-th listen(), returned,
\* or left by the exception of a rejected listen()
CallIdle == [at |-> "idle", k |-> 0]
CallAwaiting(k) == [at |-> "awaiting", k |-> k]
CallReturned == [at |-> "returned", k |-> 0]
CallFailed(k) == [at |-> "failed", k |-> k]

OtherThanListeners ==
  <<scanVars, uiVars, quotaVars, gateVars, queueVars, realtimeVars,
                 sessionVars>>

\* setupEventListeners() is called: the flag is tested and, if it is not
\* set, the first listen() is awaited
SetupEventListeners(c) ==
  /\ setupCalls[c] = CallIdle
  /\ setupCalls' = [setupCalls EXCEPT
                      ![c] = IF listenersSetup THEN CallReturned
                             ELSE CallAwaiting(1)]
  /\ UNCHANGED <<listenersSetup, handlers, OtherThanListeners>>

\* the listen() a call awaits resolves: its handler is registered, and the
\* call goes on to the next listen(), or sets the flag after the last
ListenResolved(c) ==
  /\ setupCalls[c].at = "awaiting"
  /\ LET k == setupCalls[c].k
     IN /\ handlers' = [handlers EXCEPT ![EventNames[k]] = @ + 1]
        /\ IF k < Len(EventNames)
           THEN /\ setupCalls' = [setupCalls EXCEPT ![c] = CallAwaiting(k + 1)]
                /\ UNCHANGED listenersSetup
           ELSE /\ setupCalls' = [setupCalls EXCEPT ![c] = CallReturned]
                /\ listenersSetup' = TRUE
  /\ UNCHANGED OtherThanListeners

\* the listen() a call awaits rejects: the call throws, the flag is not set
\* and the handlers registered so far stay
ListenRejected(c) ==
  /\ setupCalls[c].at = "awaiting"
  /\ setupCalls' = [setupCalls EXCEPT ![c] = CallFailed(setupCalls[c].k)]
  /\ UNCHANGED <<listenersSetup, handlers, OtherThanListeners>>

----------------------------------------------------------------------------
(* Debounced quota refresh (useSupabaseRealtime).  Time is counted in      *)
(* units of 100 ms; a timeout that is due runs before anything else.       *)

\* the delay of the refresh timer: 500 ms
DebounceWindow == 5

\* the channel a subscription holds
Channel == 1

\* clearTimeout(handle) on the runtime's pending timeouts
ClearTimeout(pending, handle) == {t \in pending : t.id # handle}

\* the timeout debouncedRefresh and cleanupSubscriptions cancel when
\* refreshTimer is set
TimersKept(pending, handle) == pending

TimersAfterClear(pending, handle) ==
  IF handle # Null THEN ClearTimeout(pending, handle) ELSE pending

TimerDue == \E t \in timers : t.due <= now

\* the timeline with an entry for what happens now
Logged(kind) == Append(timeline, [kind |-> kind, at |-> now])

NotificationCount ==
  Cardinality({i \in DOMAIN timeline : timeline[i].kind = "notify"})

OtherThanRealtime ==
  <<scanVars, uiVars, gateVars, queueVars, listenerVars, sessionVars>>

\* debouncedRefresh(productsStore)
DebouncedRefresh ==
  /\ timers' = TimersAfterClear(timers, refreshTimer)
                 \cup {[id |-> timerSeq + 1, due |-> now + DebounceWindow]}
  /\ timerSeq' = timerSeq + 1
  /\ refreshTimer' = timerSeq + 1

\* a prompt_results change (an INSERT, or an UPDATE to status evaluated)
\* is notified on the channel
ChangeNotification ==
  /\ promptResultsChannel # Null
  /\ ~TimerDue
  /\ NotificationCount < MaxNotifications
  /\ DebouncedRefresh
  /\ timeline' = Logged("notify")
  /\ UNCHANGED <<promptResultsChannel, realtimeSetup, now, quotaVars,
                 OtherThanRealtime>>

\* the refresh timer fires: loadDailyUsage() is issued
RefreshTimerFires ==
  \E t \in timers :
    /\ t.due <= now
    /\ LoadDailyUsageCall
    /\ refreshTimer' = Null
    /\ timers' = timers \ {t}
    /\ timeline' = Logged("refresh")
    /\ UNCHANGED <<promptResultsChannel, realtimeSetup, timerSeq, now,
                   OtherThanRealtime>>

\* cleanupSubscriptions(), but for the channel
CleanupTimer ==
  /\ timers' = TimersAfterClear(timers, refreshTimer)
  /\ refreshTimer' = Null
  /\ timeline' = IF refreshTimer # Null THEN Logged("cancel") ELSE timeline
  /\ UNCHANGED timerSeq

\* initializeRealtime(organizationId): once, clean up and subscribe
InitializeRealtime ==
  /\ ~TimerDue
  /\ IF realtimeSetup
     THEN UNCHANGED realtimeVars
     ELSE /\ CleanupTimer
          /\ promptResultsChannel' = Channel
          /\ realtimeSetup' = TRUE
          /\ UNCHANGED now
  /\ UNCHANGED <<quotaVars, OtherThanRealtime>>

\* disconnectRealtime(): clean up, and allow a new initialization
DisconnectRealtime ==
  /\ ~TimerDue
  /\ CleanupTimer
  /\ promptResultsChannel' = Null
  /\ realtimeSetup' = FALSE
  /\ UNCHANGED <<now, quotaVars, OtherThanRealtime>>

\* 100 ms pass
Tick ==
  /\ now < MaxTime
  /\ ~TimerDue
  /\ now' = now + 1
  /\ UNCHANGED <<promptResultsChannel, refreshTimer, realtimeSetup, timers,
                 timerSeq, timeline, quotaVars, OtherThanRealtime>>

----------------------------------------------------------------------------
(* Ui store: views and modals.  A text is a sequence of fragments, its     *)
(* value their concatenation; the texts that are searched are given        *)
(* character by character.                                                 *)

\* the message modal when hidden
NoMessage ==
  [visible |-> FALSE, title |-> "", message |-> <<>>, type |-> "info"]

\* showMessage(message, title, type): the modals afterwards
ShowMessage(message, title, type) ==
  [modals EXCEPT !.message = [visible |-> TRUE, title |-> title,
                              message |-> message, type |-> type]]

\* hideMessage()
HideMessage ==
  /\ modals.message.visible
  /\ modals' = [modals EXCEPT !.message = NoMessage]
  /\ UNCHANGED <<authRequiredData, promptCount, scheduleInfo, startScanPc,
                 startScanFrame,
                 invoked, cancelRequests, scheduleWaits, pendingEvents,
                 scanSeq, cancelledScans>>
  /\ UNCHANGED <<scanVars, uiVars, quotaVars, gateVars, queueVars,
                 listenerVars, realtimeVars>>

\* hideModal('authRequired')
HideAuthRequired ==
  /\ modals.authRequired
  /\ modals' = [modals EXCEPT !.authRequired = FALSE]
  /\ UNCHANGED <<authRequiredData, promptCount, scheduleInfo, startScanPc,
                 startScanFrame,
                 invoked, cancelRequests, scheduleWaits, pendingEvents,
                 scanSeq, cancelledScans>>
  /\ UNCHANGED <<scanVars, uiVars, quotaVars, gateVars, queueVars,
                 listenerVars, realtimeVars>>

\* a number inside a template string
NumberText(n) == ToString(n)

----------------------------------------------------------------------------
(* The platform grid of the scanning view: one PlatformProgressItem per    *)
(* id of the platforms store, given the scan store's state of that id.     *)

\* the item of a platform the scan store holds no state of
PendingItem == [status |-> "pending", progress |-> 0, countText |-> "0/0"]

\* status, progress and countText of PlatformProgressItem
PlatformItem(state) ==
  [status |-> IF state.status = "" THEN "pending" ELSE state.status,
   progress |->
     IF state.total = 0 THEN 0
     ELSE MathRound(FloatMul(FloatDiv(state.submitted + state.collected,
                                      state.total * 2), 100)),
   countText |-> NumberText(state.collected) \o "/" \o NumberText(state.total)]

\* a grid of the platforms the scan store holds a state of
PlatformGridOfReported(states) ==
  [id \in platformIds \cap DOMAIN states |-> PlatformItem(states[id])]

\* the grid: v-for over platformsStore.platformIds
PlatformGrid(states) ==
  [id \in platformIds |->
     IF id \in DOMAIN states THEN PlatformItem(states[id]) ELSE PendingItem]

----------------------------------------------------------------------------
(* Texts of errors: the error message is searched character by character.  *)

LowerCaseLetters ==
  <<"a", "b", "c", "d", "e", "f", "g", "h", "i", "j", "k", "l", "m",
    "n", "o", "p", "q", "r", "s", "t", "u", "v", "w", "x", "y", "z">>

UpperCaseLetters ==
  <<"A", "B", "C", "D", "E", "F", "G", "H", "I", "J", "K", "L", "M",
    "N", "O", "P", "Q", "R", "S", "T", "U", "V", "W", "X", "Y", "Z">>

\* text.toLowerCase()
ToLowerCase(text) ==
  [i \in DOMAIN text |->
     IF \E k \in DOMAIN UpperCaseLetters : UpperCaseLetters[k] = text[i]
     THEN LowerCaseLetters[CHOOSE k \in DOMAIN UpperCaseLetters :
                             UpperCaseLetters[k] = text[i]]
     ELSE text[i]]

\* text.includes(part)
Includes(text, part) ==
  \E i \in 0..(Len(text) - Len(part)) :
    SubSeq(text, i + 1, i + Len(part)) = part

\* 'cancel'
CancelWord == <<"c", "a", "n", "c", "e", "l">>

\* String(error) of an object: '[object Object]'
ObjectText ==
  <<"[", "o", "b", "j", "e", "c", "t", " ", "O", "b", "j", "e", "c", "t", "]">>

\* a scan:error payload: a string, or an object with a message (the empty
\* text for an object without one)
StringError(text) == [isString |-> TRUE, message |-> text]
ObjectError(text) == [isString |-> FALSE, message |-> text]

\* errorMsg of handleError
ErrorMessage(error) ==
  IF error.isString THEN error.message
  ELSE IF error.message # <<>> THEN error.message
  ELSE ObjectText

----------------------------------------------------------------------------
(* Products store: the loaders startScan and handleComplete await.         *)

\* availableTests over a snapshot
AvailableTestsOf(usage) ==
  IF usage.effectiveRemaining \notin {Undefined, Null}
  THEN usage.effectiveRemaining
  ELSE usage.remaining

\* no prompt data (null), for promptData?.
NoPromptData ==
  [hasData |-> FALSE, totalPrompts |-> Undefined, prompts |-> Undefined,
   hasQuota |-> FALSE, promptsUsedToday |-> 0, promptsPerDay |-> 0,
   promptsRemaining |-> Undefined, effectiveRemaining |-> Undefined,
   pendingEvaluations |-> Undefined, hasIsUnlimited |-> FALSE,
   isUnlimited |-> FALSE, plan |-> NoPlan]

\* promptData?.totalPrompts || promptData?.prompts?.length || 0, prompts
\* standing for the length of the list
PromptCountOf(promptData) ==
  IF ~promptData.hasData THEN 0
  ELSE IF promptData.totalPrompts \notin {Undefined, 0}
       THEN promptData.totalPrompts
       ELSE OrZero(promptData.prompts)

\* the snapshot loadProductPromptCount builds from promptData.quota
QuotaUsage(quota) ==
  LET baseRemaining ==
        IF quota.promptsRemaining \notin {Undefined, Null}
        THEN quota.promptsRemaining
        ELSE quota.promptsPerDay - quota.promptsUsedToday
  IN [current |-> quota.promptsUsedToday,
      limit |-> IF quota.promptsPerDay = 0 THEN 30 ELSE quota.promptsPerDay,
      remaining |-> baseRemaining,
      effectiveRemaining |->
        IF quota.effectiveRemaining \notin {Undefined, Null}
        THEN quota.effectiveRemaining
        ELSE baseRemaining,
      pendingEvaluations |->
        IF quota.pendingEvaluations \notin {Undefined, Null}
        THEN quota.pendingEvaluations
        ELSE 0,
      isUnlimited |-> (quota.hasIsUnlimited /\ quota.isUnlimited)
                        \/ quota.promptsPerDay = -1,
      plan |-> IF quota.plan = NoPlan THEN "free" ELSE quota.plan]

\* the snapshot after loadProductPromptCount resolved with promptData
UsageAfterPrompts(promptData) ==
  IF promptData.hasData /\ promptData.hasQuota
  THEN QuotaUsage(promptData)
  ELSE dailyUsage

----------------------------------------------------------------------------
(* Regions store.                                                          *)

\* the regions configured (the store's initial list)
configuredRegions == {"local"}

\* r.toLowerCase() on the region codes of the model
LowerRegion(r) == IF r = "DE" THEN "de" ELSE r

\* isPlatformAuthForRegion(region, platform)
isPlatformAuthForRegion(region, platform) ==
  LET key == region \o ":" \o platform
  IN key \in DOMAIN platformAuthStatus /\ platformAuthStatus[key]

----------------------------------------------------------------------------
(* Scan store: startScan, one step per stretch between two awaits.         *)

\* the variables no step of the scan session touches
backgroundVars == <<queueVars, listenerVars, realtimeVars>>

\* a backend command the call has invoked, and how it settled
Command(name, outcome) == [command |-> name, outcome |-> outcome]

\* the commands of the call, the last one settled
Settled(outcome) ==
  [i \in DOMAIN invoked |->
     IF i = Len(invoked) THEN Command(invoked[i].command, outcome)
     ELSE invoked[i]]

\* the locals of a call that has not read availableTests yet
NoFrame == [availableTests |-> Null, request |-> <<>>]

\* a return that leaves isStarting as it is
StartScanReturnsStarting ==
  /\ UNCHANGED isStarting
  /\ startScanPc' = "idle"
  /\ startScanFrame' = NoFrame

\* the call returns
StartScanReturns ==
  /\ isStarting' = FALSE
  /\ startScanPc' = "idle"
  /\ startScanFrame' = NoFrame

\* a start that refreshes the usage before it looks for an authenticated
\* platform
StartScanRefreshesFirst ==
  /\ ~(isStarting \/ isScanning)
  /\ selectedProductId # NoProduct
  /\ IF ~hasAnyAuth
     THEN /\ authRequiredData' = {}
          /\ modals' = [modals EXCEPT !.authRequired = TRUE]
          /\ invoked' = <<Command("check_daily_usage", "resolved")>>
          /\ UNCHANGED <<isStarting, startScanPc, startScanFrame>>
     ELSE /\ isStarting' = TRUE
          /\ startScanPc' = "loadDailyUsage"
          /\ invoked' = <<Command("check_daily_usage", "pending")>>
          /\ UNCHANGED <<modals, authRequiredData, startScanFrame>>
  /\ UNCHANGED <<isScanning, phase, progress, countdownSeconds, platforms,
                 lastResult, uiVars, quotaVars, gateVars, promptCount,
                 scheduleInfo, cancelRequests, scheduleWaits, pendingEvents,
                 scanSeq, cancelledScans, backgroundVars>>

\* startScan() up to its first await; the call returns at once while a scan
\* is starting or running, or without a product
StartScan ==
  /\ ~(isStarting \/ isScanning)
  /\ selectedProductId # NoProduct
  /\ IF ~hasAnyAuth
     THEN /\ authRequiredData' = {}
          /\ modals' = [modals EXCEPT !.authRequired = TRUE]
          /\ invoked' = <<>>
          /\ UNCHANGED <<isStarting, startScanPc, startScanFrame>>
     ELSE /\ isStarting' = TRUE
          /\ startScanPc' = "loadDailyUsage"
          /\ invoked' = <<Command("check_daily_usage", "pending")>>
          /\ UNCHANGED <<modals, authRequiredData, startScanFrame>>
  /\ UNCHANGED <<isScanning, phase, progress, countdownSeconds, platforms,
                 lastResult, uiVars, quotaVars, gateVars, promptCount,
                 scheduleInfo, cancelRequests, scheduleWaits, pendingEvents,
                 scanSeq, cancelledScans, backgroundVars>>

\* startScan(), its loadDailyUsage() settled: loadProductPromptCount begins
StartScanUsageSettled(outcome) ==
  /\ startScanPc = "loadDailyUsage"
  /\ startScanPc' = "loadProductPromptCount"
  /\ invoked' = Append(Settled(outcome),
                       Command("fetch_extension_prompts", "pending"))
  /\ UNCHANGED <<startScanFrame, scanVars, uiVars, usageRequests, gateVars,
                 modals,
                 authRequiredData, promptCount, scheduleInfo, cancelRequests,
                 scheduleWaits, pendingEvents, scanSeq, cancelledScans,
                 backgroundVars>>

StartScanUsageLoaded(usage) ==
  /\ StartScanUsageSettled("resolved")
  /\ dailyUsage' = UsageAfter(usage)

StartScanUsageFailed ==
  /\ StartScanUsageSettled("rejected")
  /\ dailyUsage' = FailedUsage(dailyUsage)

\* startScan() from the quota check to the await of getPromptTargetRegions,
\* over the snapshot usage and the prompt count count
StartScanChecks(usage, count, outcome) ==
  IF ~usage.isUnlimited /\ AvailableTestsOf(usage) <= 0
  THEN /\ modals' =
            ShowMessage(
              IF usage.pendingEvaluations > 0
              THEN <<"Please wait - ", NumberText(usage.pendingEvaluations),
                     " tests are pending evaluation">>
              ELSE <<"Daily limit reached (", NumberText(usage.current), "/",
                     NumberText(usage.limit), "). Resets at midnight.">>,
              "Cannot Start Scan", "warning")
       /\ StartScanReturns
       /\ invoked' = Settled(outcome)
  ELSE IF count = 0
  THEN /\ modals' =
            ShowMessage(
              <<"No prompts configured for this product. Add prompts in the dashboard.">>,
              "No Prompts", "warning")
       /\ StartScanReturns
       /\ invoked' = Settled(outcome)
  ELSE /\ startScanPc' = "getPromptTargetRegions"
       /\ startScanFrame' =
            [NoFrame EXCEPT !.availableTests = AvailableTestsOf(usage)]
       /\ invoked' = Append(Settled(outcome),
                            Command("get_prompt_target_regions", "pending"))
       /\ UNCHANGED <<modals, isStarting>>

\* startScan(), its loadProductPromptCount() settled
StartScanPromptsSettled ==
  /\ startScanPc = "loadProductPromptCount"
  /\ UNCHANGED <<isScanning, phase, progress, countdownSeconds, platforms,
                 lastResult, uiVars, usageRequests, gateVars,
                 authRequiredData, scheduleInfo, cancelRequests,
                 scheduleWaits, pendingEvents, scanSeq, cancelledScans,
                 backgroundVars>>

StartScanPromptsLoaded(promptData) ==
  /\ StartScanPromptsSettled
  /\ promptCount' = PromptCountOf(promptData)
  /\ dailyUsage' = UsageAfterPrompts(promptData)
  /\ StartScanChecks(UsageAfterPrompts(promptData),
                     PromptCountOf(promptData), "resolved")

StartScanPromptsFailed ==
  /\ StartScanPromptsSettled
  /\ promptCount' = 0
  /\ UNCHANGED dailyUsage
  /\ StartScanChecks(dailyUsage, 0, "rejected")

\* the regions the prompts need: a prompt without target regions needs
\* 'local'
NeededRegions(promptRegions) ==
  UNION {IF promptRegions[prompt] = {}
         THEN {"local"}
         ELSE {LowerRegion(r) : r \in promptRegions[prompt]} :
           prompt \in DOMAIN promptRegions}

\* the needed regions without an authenticated platform
MissingAuth(promptRegions) ==
  {[region |-> region, platforms |-> platformIds] :
     region \in {r \in NeededRegions(promptRegions) :
                   ~\E p \in platformIds : isPlatformAuthForRegion(r, p)}}

\* the platforms authenticated in a configured region
AuthPlatforms ==
  {p \in platformIds :
     \E r \in configuredRegions : isPlatformAuthForRegion(r, p)}

\* the ids of the platforms store in their order
platformIdList == <<"chatgpt", "claude">>

\* authPlatforms: platformIds.filter(...), the order kept
AuthPlatformList ==
  SelectSeq(platformIdList, LAMBDA p : p \in AuthPlatforms)

\* productConfig?.samples_per_prompt || 1, no product config loaded
SamplesPerPrompt == 1

\* limitedPlatforms: as many of the authenticated platforms as the quota
\* affords (Math.floor of a division by zero is no count of platforms)
LimitedPlatforms(tests) ==
  LET testsPerPrompt == promptCount * SamplesPerPrompt
      maxTestsToUse == testsPerPrompt * Len(AuthPlatformList)
      platformsWeCanAfford ==
        IF testsPerPrompt = 0 THEN 0 ELSE tests \div testsPerPrompt
  IN IF /\ ~dailyUsage.isUnlimited
        /\ maxTestsToUse > tests
        /\ platformsWeCanAfford > 0
        /\ platformsWeCanAfford < Len(AuthPlatformList)
     THEN SubSeq(AuthPlatformList, 1, platformsWeCanAfford)
     ELSE AuthPlatformList

\* the argument of commands.startScan
StartRequest(tests) ==
  [productId |-> selectedProductId,
   samplesPerPrompt |-> SamplesPerPrompt,
   platforms |-> LimitedPlatforms(tests),
   maxTests |-> IF dailyUsage.isUnlimited THEN Null ELSE tests]

\* startScan(), getPromptTargetRegions resolved with promptRegions: the
\* auth-required modal, or the session begins and start_scan is invoked
StartScanRegionsLoaded(promptRegions) ==
  /\ startScanPc = "getPromptTargetRegions"
  /\ IF MissingAuth(promptRegions) # {} \/ AuthPlatforms = {}
     THEN /\ authRequiredData' = MissingAuth(promptRegions)
          /\ modals' = [modals EXCEPT !.authRequired = TRUE]
          /\ StartScanReturns
          /\ invoked' = Settled("resolved")
          /\ UNCHANGED <<isScanning, phase, progress, countdownSeconds,
                         platforms, lastResult, uiVars, scanSeq>>
     ELSE /\ scanSeq < MaxScans
          /\ isScanning' = TRUE
          /\ ResetProgress
          /\ currentView' = "scanning"
          /\ startScanPc' = "startScan"
          /\ startScanFrame' =
               [startScanFrame EXCEPT
                  !.request = StartRequest(startScanFrame.availableTests)]
          /\ invoked' = Append(Settled("resolved"),
                               Command("start_scan", "pending"))
          /\ scanSeq' = scanSeq + 1
          /\ UNCHANGED <<isStarting, modals, authRequiredData>>
  /\ UNCHANGED <<quotaVars, gateVars, promptCount, scheduleInfo,
                 cancelRequests, scheduleWaits, pendingEvents,
                 cancelledScans, backgroundVars>>

\* startScan(), start_scan resolved
StartScanStarted ==
  /\ startScanPc = "startScan"
  /\ StartScanReturns
  /\ invoked' = Settled("resolved")
  /\ UNCHANGED <<isScanning, phase, progress, countdownSeconds, platforms,
                 lastResult, uiVars, quotaVars, gateVars, modals,
                 authRequiredData, promptCount, scheduleInfo, cancelRequests,
                 scheduleWaits, pendingEvents, scanSeq, cancelledScans,
                 backgroundVars>>

\* startScan(), getPromptTargetRegions or start_scan rejected with error:
\* the catch block
StartScanCaught(error) ==
  /\ startScanPc \in {"getPromptTargetRegions", "startScan"}
  /\ modals' = ShowMessage(<<"Failed to start scan: ">> \o error,
                           "Error", "error")
  /\ currentView' = "main"
  /\ isScanning' = FALSE
  /\ StartScanReturns
  /\ invoked' = Settled("rejected")
  /\ UNCHANGED <<phase, progress, countdownSeconds, platforms, lastResult,
                 quotaVars, gateVars, authRequiredData, promptCount,
                 scheduleInfo, cancelRequests, scheduleWaits, pendingEvents,
                 scanSeq, cancelledScans, backgroundVars>>

----------------------------------------------------------------------------
(* Scan store: cancelScan, handleComplete, handleError.                    *)

\* cancelScan(), called by the Cancel button of the scanning view, up to
\* its await: cancel_scan is invoked
CancelScan ==
  /\ currentView = "scanning"
  /\ cancelRequests.inFlight < MaxCancels
  /\ cancelRequests' =
       [cancelRequests EXCEPT !.inFlight = cancelRequests.inFlight + 1]
  /\ UNCHANGED <<scanVars, uiVars, quotaVars, gateVars, modals,
                 authRequiredData, promptCount, scheduleInfo, startScanPc,
                 startScanFrame,
                 invoked, scheduleWaits, pendingEvents, scanSeq,
                 cancelledScans, backgroundVars>>

\* cancelScan(), cancel_scan resolved; the scans begun so far count as
\* cancelled
CancelResolved ==
  /\ cancelRequests.inFlight > 0
  /\ cancelRequests' =
       [inFlight |-> cancelRequests.inFlight - 1, settled |-> "resolved"]
  /\ isScanning' = FALSE
  /\ currentView' = "main"
  /\ cancelledScans' = 1..scanSeq
  /\ UNCHANGED <<isStarting, phase, progress, countdownSeconds, platforms,
                 lastResult, quotaVars, gateVars, modals, authRequiredData,
                 promptCount, scheduleInfo, startScanPc,
                 startScanFrame, invoked,
                 scheduleWaits, pendingEvents, scanSeq, backgroundVars>>

\* cancelScan(), cancel_scan rejected: logged
CancelRejected ==
  /\ cancelRequests.inFlight > 0
  /\ cancelRequests' =
       [inFlight |-> cancelRequests.inFlight - 1, settled |-> "rejected"]
  /\ UNCHANGED <<scanVars, uiVars, quotaVars, gateVars, modals,
                 authRequiredData, promptCount, scheduleInfo, startScanPc,
                 startScanFrame,
                 invoked, scheduleWaits, pendingEvents, scanSeq,
                 cancelledScans, backgroundVars>>

\* a handler that drops the result
HandleCompleteDropsResult(result) ==
  /\ isScanning' = FALSE
  /\ lastResult' = lastResult
  /\ currentView' = "complete"
  /\ IF selectedProductId = NoProduct
     THEN /\ LoadDailyUsageCall
          /\ UNCHANGED scheduleWaits
     ELSE /\ scheduleWaits < MaxScheduleWaits
          /\ scheduleWaits' = scheduleWaits + 1
          /\ UNCHANGED quotaVars
  /\ UNCHANGED <<isStarting, phase, progress, countdownSeconds, platforms>>

\* handleComplete(result) up to the await of get_schedule_info; without a
\* product loadScheduleInfo returns at once and loadDailyUsage is called
HandleComplete(result) ==
  /\ isScanning' = FALSE
  /\ lastResult' = result
  /\ currentView' = "complete"
  /\ IF selectedProductId = NoProduct
     THEN /\ LoadDailyUsageCall
          /\ UNCHANGED scheduleWaits
     ELSE /\ scheduleWaits < MaxRequests
          /\ scheduleWaits' = scheduleWaits + 1
          /\ UNCHANGED quotaVars
  /\ UNCHANGED <<isStarting, phase, progress, countdownSeconds, platforms>>

\* handleComplete(), get_schedule_info settled (info, or Undefined for a
\* rejection): loadDailyUsage is called
ScheduleSettled(info) ==
  /\ scheduleWaits > 0
  /\ scheduleWaits' = scheduleWaits - 1
  /\ scheduleInfo' = IF info = Undefined THEN scheduleInfo ELSE info
  /\ LoadDailyUsageCall
  /\ UNCHANGED <<scanVars, uiVars, gateVars, modals, authRequiredData,
                 promptCount, startScanPc,
                 startScanFrame, invoked, cancelRequests,
                 pendingEvents, scanSeq, cancelledScans, backgroundVars>>

\* a search for 'cancel' that minds the case
IsCancelledExactCase(errorMsg) == Includes(errorMsg, CancelWord)

\* isCancelled of handleError
IsCancelled(errorMsg) == Includes(ToLowerCase(errorMsg), CancelWord)

\* a handler that goes back to the scanning view
HandleErrorShowsScanning(error) ==
  /\ isScanning' = FALSE
  /\ modals' =
       ShowMessage(ErrorMessage(error),
                   IF IsCancelled(ErrorMessage(error))
                   THEN "Scan Cancelled" ELSE "Scan Error",
                   IF IsCancelled(ErrorMessage(error))
                   THEN "info" ELSE "error")
  /\ currentView' = "scanning"
  /\ UNCHANGED <<isStarting, phase, progress, countdownSeconds, platforms,
                 lastResult>>

\* handleError(error)
HandleError(error) ==
  /\ isScanning' = FALSE
  /\ modals' =
       ShowMessage(ErrorMessage(error),
                   IF IsCancelled(ErrorMessage(error))
                   THEN "Scan Cancelled" ELSE "Scan Error",
                   IF IsCancelled(ErrorMessage(error))
                   THEN "info" ELSE "error")
  /\ currentView' = "main"
  /\ UNCHANGED <<isStarting, phase, progress, countdownSeconds, platforms,
                 lastResult>>

\* the view checkAuthStatus routes to
CheckAuthView(authenticated, scanRunning, onboardingCompleted) ==
  IF ~authenticated THEN "login"
  ELSE IF scanRunning THEN "scanning"
  ELSE IF ~onboardingCompleted THEN "onboarding"
  ELSE "main"

\* checkAuthStatus(), from the answer of is_scan_running on (the user and
\* the stores are loaded before that); a scan is found running only if the
\* backend has begun one; an unauthenticated status, and a failure, route
\* to the login view without asking
CheckAuthStatus(authenticated, scanRunning, onboardingCompleted) ==
  /\ startScanPc = "idle"
  /\ scanRunning => scanSeq > 0
  /\ currentView' =
       CheckAuthView(authenticated, scanRunning, onboardingCompleted)
  /\ invoked' =
       IF authenticated
       THEN <<Command("is_scan_running",
                      IF scanRunning THEN "true" ELSE "false")>>
       ELSE <<>>
  /\ UNCHANGED <<scanVars, quotaVars, gateVars, modals, authRequiredData,
                 promptCount, scheduleInfo, startScanPc,
                 startScanFrame, cancelRequests,
                 scheduleWaits, pendingEvents, scanSeq, cancelledScans,
                 backgroundVars>>

----------------------------------------------------------------------------
(* Scan events in flight.  The backend emits the events of the scans it    *)
(* has begun; the event bus delivers them in the order of emission.        *)

Event(scan, name, payload) ==
  [scan |-> scan, name |-> name, payload |-> payload]

\* the backend emits an event of a scan it has begun
Emit(event) ==
  /\ Len(pendingEvents) < MaxPending
  /\ event.scan \in 1..scanSeq
  /\ pendingEvents' = Append(pendingEvents, event)
  /\ UNCHANGED <<scanVars, uiVars, quotaVars, gateVars, modals,
                 authRequiredData, promptCount, scheduleInfo, startScanPc,
                 startScanFrame,
                 invoked, cancelRequests, scheduleWaits, scanSeq,
                 cancelledScans, backgroundVars>>

\* the backend begins a scan of its own (an auto-scan or an external
\* trigger) and announces it
EmitStarted ==
  /\ Len(pendingEvents) < MaxPending
  /\ scanSeq < MaxScans
  /\ scanSeq' = scanSeq + 1
  /\ pendingEvents' =
       Append(pendingEvents, Event(scanSeq + 1, "scan:started", Null))
  /\ UNCHANGED <<scanVars, uiVars, quotaVars, gateVars, modals,
                 authRequiredData, promptCount, scheduleInfo, startScanPc,
                 startScanFrame,
                 invoked, cancelRequests, scheduleWaits, cancelledScans,
                 backgroundVars>>

\* the listener of the event at the head of the queue runs
DeliverEvent ==
  /\ pendingEvents # <<>>
  /\ pendingEvents' = Tail(pendingEvents)
  /\ LET event == Head(pendingEvents)
     IN CASE event.name = "scan:started" ->
               /\ OnScanStarted
               /\ UNCHANGED <<modals, scheduleWaits>>
          [] event.name = "scan:progress" ->
               /\ UpdateProgress(event.payload)
               /\ UNCHANGED <<uiVars, quotaVars, modals, scheduleWaits>>
          [] event.name = "scan:complete" ->
               /\ HandleComplete(event.payload)
               /\ UNCHANGED modals
          [] event.name = "scan:error" ->
               /\ HandleError(event.payload)
               /\ UNCHANGED <<quotaVars, scheduleWaits>>
          [] event.name = "scan:countdown" ->
               /\ countdownSeconds' = event.payload
               /\ UNCHANGED <<isScanning, isStarting, phase, progress,
                              platforms, lastResult, uiVars, quotaVars,
                              modals, scheduleWaits>>
  /\ UNCHANGED <<gateVars, authRequiredData, promptCount, scheduleInfo,
                 startScanPc, startScanFrame, invoked, cancelRequests, scanSeq,
                 cancelledScans, backgroundVars>>

----------------------------------------------------------------------------
(* Specifications.                                                         *)

InitScan ==
  /\ isScanning = FALSE
  /\ isStarting = FALSE
  /\ phase = "initializing"
  /\ progress = 0
  /\ countdownSeconds = Null
  /\ platforms = <<>>
  /\ lastResult = <<>>
  /\ currentView = "login"

InitProducts ==
  /\ dailyUsage = InitialUsage
  /\ usageRequests = 0
  /\ selectedProductId = NoProduct
  /\ platformAuthStatus = <<>>
  /\ usageReplies = <<>>

InitListeners ==
  /\ listenersSetup = FALSE
  /\ setupCalls = [c \in SetupCalls |-> CallIdle]
  /\ handlers = [e \in EventSet |-> 0]

InitSession ==
  /\ modals = [message |-> NoMessage, authRequired |-> FALSE]
  /\ authRequiredData = {}
  /\ promptCount = 0
  /\ scheduleInfo = Null
  /\ startScanPc = "idle"
  /\ startScanFrame = NoFrame
  /\ invoked = <<>>
  /\ cancelRequests = [inFlight |-> 0, settled |-> "none"]
  /\ scheduleWaits = 0
  /\ pendingEvents = <<>>
  /\ scanSeq = 0
  /\ cancelledScans = {}

InitRealtime ==
  /\ promptResultsChannel = Null
  /\ refreshTimer = Null
  /\ realtimeSetup = FALSE
  /\ timers = {}
  /\ timerSeq = 0
  /\ now = 0
  /\ timeline = <<>>

Init ==
  /\ InitScan
  /\ InitProducts
  /\ InitListeners
  /\ InitRealtime
  /\ InitSession
  /\ eventQueue = <<>>

\* the scan session under sequences of scan events
Next ==
  \/ ScanStarted
  \/ \E p \in ProgressPayloads : ScanProgress(p)
  \/ \E n \in 0..MaxCountdown : ScanCountdown(n)
  \/ LoadDailyUsageRejected

Spec == Init /\ [][Next]_vars

\* one arbitrary scan:progress payload, emitted and then delivered
InitFold ==
  /\ InitScan
  /\ InitProducts
  /\ InitListeners
  /\ InitRealtime
  /\ InitSession
  /\ eventQueue \in {<<p>> : p \in FoldPayloads}

NextFold == DeliverProgress

SpecFold == InitFold /\ [][NextFold]_vars

\* two loadDailyUsage calls in flight: the response to the first carries
\* every field, the response to the second is arbitrary
InitUsageFold ==
  /\ InitScan
  /\ dailyUsage = InitialUsage
  /\ usageRequests = 2
  /\ selectedProductId = NoProduct
  /\ platformAuthStatus = <<>>
  /\ usageReplies \in {<<full, usage>> : full \in FullResponses,
                                         usage \in UsageResponses}
  /\ InitListeners
  /\ InitRealtime
  /\ InitSession
  /\ eventQueue = <<>>

NextUsageFold == DeliverUsage

SpecUsageFold == InitUsageFold /\ [][NextUsageFold]_vars

\* two check_daily_usage commands in flight together (issued by
\* scan:started, scan:complete, selectProduct or the debounce timer), each
\* with the response the backend gives it
InitInFlight ==
  /\ InitScan
  /\ dailyUsage = InitialUsage
  /\ usageRequests = 2
  /\ selectedProductId = NoProduct
  /\ platformAuthStatus = <<>>
  /\ usageReplies \in {<<first, second>> : first \in FullResponses,
                                            second \in FullResponses}
  /\ InitListeners
  /\ InitRealtime
  /\ InitSession
  /\ eventQueue = <<>>

NextInFlight == \E i \in 1..2 : SettleUsage(i)

SpecInFlight == InitInFlight /\ [][NextInFlight]_vars

\* two scan:progress events in a row: the first reports every platform
\* (as collecting), the second is arbitrary
ReportsOfAll ==
  {p \in ProgressPayloads :
     /\ p.hasPlatforms
     /\ DOMAIN p.platforms = PlatformIds
     /\ p.phase # NoPhase
     /\ p.countdownSeconds = Undefined}

InitGrid ==
  /\ InitScan
  /\ InitProducts
  /\ InitListeners
  /\ InitRealtime
  /\ InitSession
  /\ eventQueue \in {<<first, second>> : first \in ReportsOfAll,
                                         second \in ProgressPayloads}

NextGrid == DeliverProgress

SpecGrid == InitGrid /\ [][NextGrid]_vars

\* the counters of growing progress reports: small ones, and 6, so that
\* two platforms make a total of 12
GrowingCounters == (0..MaxGrowingCount) \cup {6}

\* two states of one platform, the total the same and no counter lower in
\* the second
GrowingStates ==
  {pair \in
     [total : GrowingCounters, submitted : GrowingCounters,
      collected : GrowingCounters, nextSubmitted : GrowingCounters,
      nextCollected : GrowingCounters] :
       /\ pair.submitted <= pair.nextSubmitted
       /\ pair.nextSubmitted <= pair.total
       /\ pair.collected <= pair.nextCollected
       /\ pair.nextCollected <= pair.total}

\* two scan:progress payloads over the same platforms, the second grown
\* from the first
GrowingPayloads(pairs) ==
  <<[phase |-> "collecting", hasPlatforms |-> TRUE,
     platforms |->
       [id \in DOMAIN pairs |->
          [status |-> "collecting", total |-> pairs[id].total,
           submitted |-> pairs[id].submitted,
           collected |-> pairs[id].collected]],
     countdownSeconds |-> Undefined],
    [phase |-> "collecting", hasPlatforms |-> TRUE,
     platforms |->
       [id \in DOMAIN pairs |->
          [status |-> "collecting", total |-> pairs[id].total,
           submitted |-> pairs[id].nextSubmitted,
           collected |-> pairs[id].nextCollected]],
     countdownSeconds |-> Undefined]>>

\* a scan runs; two progress reports, the second grown from the first,
\* are emitted and then delivered in order
InitGrowing ==
  /\ isScanning = TRUE
  /\ isStarting = FALSE
  /\ phase = "initializing"
  /\ progress = 0
  /\ countdownSeconds = Null
  /\ platforms = ResetStates
  /\ lastResult = <<>>
  /\ currentView = "scanning"
  /\ InitProducts
  /\ InitListeners
  /\ InitRealtime
  /\ InitSession
  /\ eventQueue \in
       {GrowingPayloads(pairs) :
          pairs \in UNION {[ids -> GrowingStates] :
                             ids \in SUBSET PlatformIds \ {{}}}}

NextGrowing == DeliverProgress

SpecGrowing == InitGrowing /\ [][NextGrowing]_vars

\* the phases of scan:progress payloads: the six known ones, no phase, and
\* strings the table does not list
DisplayPhases ==
  DOMAIN PHASE_DISPLAY_TEXT \cup {NoPhase, "paused", "constructor"}
PhasePayloads ==
  {[p EXCEPT !.phase = ph] : p \in ProgressPayloads, ph \in DisplayPhases}

\* one scan:progress payload with an arbitrary phase, emitted and then
\* delivered
InitPhaseFold ==
  /\ InitScan
  /\ InitProducts
  /\ InitListeners
  /\ InitRealtime
  /\ InitSession
  /\ eventQueue \in {<<p>> : p \in PhasePayloads}

NextPhaseFold == DeliverProgress

SpecPhaseFold == InitPhaseFold /\ [][NextPhaseFold]_vars

\* calls of setupEventListeners and the listen() promises they await
NextListeners ==
  \E c \in SetupCalls :
    \/ SetupEventListeners(c)
    \/ ListenResolved(c)
    \/ ListenRejected(c)

SpecListeners == Init /\ [][NextListeners]_vars

\* change notifications, the refresh timer and the realtime lifecycle
NextDebounce ==
  \/ InitializeRealtime
  \/ DisconnectRealtime
  \/ ChangeNotification
  \/ RefreshTimerFires
  \/ Tick

SpecDebounce == Init /\ [][NextDebounce]_vars

\* the quota snapshot under check_daily_usage responses, and what the
\* scan-start gates read
NextQuota ==
  \/ \E id \in ProductIds : SelectProduct(id)
  \/ \E usage \in UsageResponses : LoadDailyUsageResolved(usage)
  \/ LoadDailyUsageRejected
  \/ \E key \in AuthKeys, authenticated \in BOOLEAN :
       PlatformAuthChanged(key, authenticated)

SpecQuota == Init /\ [][NextQuota]_vars

\* the responses that, carrying both remaining and effectiveRemaining, keep
\* effectiveRemaining within remaining
RelatedResponses ==
  {u \in UsageResponses :
     (u.remaining # Undefined /\ u.effectiveRemaining # Undefined) =>
        u.effectiveRemaining <= u.remaining}

\* the quota snapshot under such responses: products are selected and the
\* quota refreshes settle
NextRelated ==
  \/ \E id \in ProductIds : SelectProduct(id)
  \/ \E usage \in RelatedResponses : LoadDailyUsageResolved(usage)
  \/ LoadDailyUsageRejected

SpecRelated == Init /\ [][NextRelated]_vars

\* the responses and payloads of the scan session: check_daily_usage
\* reports a limited plan (with or without tests left, with or without
\* pending evaluations) or an unlimited one
SessionUsages ==
  {u \in FullResponses :
     /\ u.current = 0
     /\ ~u.isUnlimited
     /\ u.effectiveRemaining = u.remaining
     /\ \/ u.limit = MaxUsage
        \/ u.limit = -1 /\ u.remaining = MaxUsage /\ u.pendingEvaluations = 0}

\* fetch_extension_prompts: no data, a count, a list without a count, or a
\* count with the quota of a used-up or an unlimited plan
PromptCounts == {Undefined} \cup (0..MaxPrompts)
SessionPrompts ==
  {NoPromptData}
    \cup {[NoPromptData EXCEPT !.hasData = TRUE, !.totalPrompts = n,
                               !.prompts = m] :
            n \in PromptCounts, m \in PromptCounts}
    \cup {[NoPromptData EXCEPT !.hasData = TRUE, !.totalPrompts = MaxPrompts,
                               !.prompts = MaxPrompts, !.hasQuota = TRUE,
                               !.promptsUsedToday = MaxUsage,
                               !.promptsPerDay = perDay] :
            perDay \in {-1, MaxUsage}}

\* get_prompt_target_regions: one prompt, without target regions or with a
\* region nobody is authenticated in
LocalRegions == [prompt1 |-> {}]
SessionRegions == {LocalRegions, [prompt1 |-> {"DE"}]}

\* an unlimited plan, and a product with one prompt
UnlimitedUsage == CHOOSE u \in SessionUsages : u.limit = -1
OnePrompt ==
  [NoPromptData EXCEPT !.hasData = TRUE, !.totalPrompts = 1, !.prompts = 1]

\* the texts of rejections and of scan:error payloads
CancelledText ==
  <<"S", "c", "a", "n", " ", "c", "a", "n", "c", "e", "l", "l", "e", "d">>
FailedText == <<"f", "a", "i", "l", "e", "d">>
SessionErrors == {StringError(CancelledText), ObjectError(FailedText)}

\* scan:progress and scan:complete payloads
SessionProgress ==
  {p \in ProgressPayloads :
     /\ p.hasPlatforms
     /\ p.phase # NoPhase
     /\ DOMAIN p.platforms = PlatformIds
     /\ p.countdownSeconds = Undefined
     /\ \A id \in DOMAIN p.platforms :
          /\ p.platforms[id].total = MaxCount
          /\ p.platforms[id].submitted = MaxCount
          /\ p.platforms[id].collected = MaxCount}
SessionResults ==
  {[total_prompts |-> MaxCount, successful_prompts |-> MaxCount,
    mention_rate |-> 0, citation_rate |-> 0]}

\* the main view with a product selected and its quota not loaded yet
InitReady ==
  /\ isScanning = FALSE
  /\ isStarting = FALSE
  /\ phase = "initializing"
  /\ progress = 0
  /\ countdownSeconds = Null
  /\ platforms = <<>>
  /\ lastResult = <<>>
  /\ currentView = "main"
  /\ dailyUsage = InitialUsage
  /\ usageRequests = 0
  /\ selectedProductId \in ProductIds
  /\ usageReplies = <<>>
  /\ InitListeners
  /\ InitRealtime
  /\ InitSession
  /\ eventQueue = <<>>

\* starting a scan: the user starts and cancels scans and closes the
\* modals, platforms are signed in and out, the backend answers the
\* commands
InitStart ==
  /\ InitReady
  /\ platformAuthStatus = <<>>

NextStart ==
  \/ \E key \in AuthKeys, authenticated \in BOOLEAN :
       PlatformAuthChanged(key, authenticated)
  \/ StartScan
  \/ \E usage \in SessionUsages : StartScanUsageLoaded(usage)
  \/ StartScanUsageFailed
  \/ \E promptData \in SessionPrompts : StartScanPromptsLoaded(promptData)
  \/ StartScanPromptsFailed
  \/ \E promptRegions \in SessionRegions :
       StartScanRegionsLoaded(promptRegions)
  \/ StartScanStarted
  \/ StartScanCaught(FailedText)
  \/ CancelScan
  \/ CancelResolved
  \/ CancelRejected
  \/ HideMessage
  \/ HideAuthRequired

SpecStart == InitStart /\ [][NextStart]_vars

\* the events a scan emits once it has begun
EmitScanEvent ==
  \E scan \in 1..MaxScans :
    \/ \E p \in SessionProgress : Emit(Event(scan, "scan:progress", p))
    \/ \E result \in SessionResults :
         Emit(Event(scan, "scan:complete", result))
    \/ Emit(Event(scan, "scan:error", StringError(CancelledText)))

\* the scan session: with a platform signed in, the backend begins scans
\* and emits their events, the user cancels, and the quota and schedule
\* commands settle
InitEvents ==
  /\ InitReady
  /\ platformAuthStatus = [key \in AuthKeys |-> TRUE]

NextSession ==
  \/ EmitStarted
  \/ EmitScanEvent
  \/ DeliverEvent
  \/ CancelScan
  \/ CancelResolved
  \/ LoadDailyUsageRejected
  \/ ScheduleSettled(Undefined)

SpecSession == InitEvents /\ [][NextSession]_vars

\* the application starts: the window is loaded while the backend may
\* have a scan running already (its scan:started event was emitted before
\* the listeners were registered); checkAuthStatus routes to a view, the
\* backend begins scans and emits their events, the user cancels
InitStartup ==
  /\ InitScan
  /\ dailyUsage = InitialUsage
  /\ usageRequests = 0
  /\ selectedProductId \in ProductIds
  /\ platformAuthStatus = [key \in AuthKeys |-> TRUE]
  /\ usageReplies = <<>>
  /\ InitListeners
  /\ InitRealtime
  /\ eventQueue = <<>>
  /\ modals = [message |-> NoMessage, authRequired |-> FALSE]
  /\ authRequiredData = {}
  /\ promptCount = 0
  /\ scheduleInfo = Null
  /\ startScanPc = "idle"
  /\ startScanFrame = NoFrame
  /\ invoked = <<>>
  /\ cancelRequests = [inFlight |-> 0, settled |-> "none"]
  /\ scheduleWaits = 0
  /\ pendingEvents = <<>>
  /\ scanSeq \in {0, 1}
  /\ cancelledScans = {}

NextStartup ==
  \/ \E authenticated \in BOOLEAN, scanRunning \in BOOLEAN,
        onboardingCompleted \in BOOLEAN :
       CheckAuthStatus(authenticated, scanRunning, onboardingCompleted)
  \/ NextSession

SpecStartup == InitStartup /\ [][NextStartup]_vars

\* the request startScan sends: any of the platforms is authenticated, the
\* plan is limited or unlimited with or without tests left, and a quota
\* refresh issued earlier (by selectProduct, scan:complete or the debounce
\* timer) may still be in flight when the user starts the scan
StartAuthKeys == {"local:chatgpt", "local:claude"}
StartUsages ==
  {u \in FullResponses :
     /\ u.current = 0
     /\ u.pendingEvaluations = 0
     /\ ~u.isUnlimited
     /\ u.effectiveRemaining = u.remaining
     /\ u.limit \in {-1, MaxUsage}}

InitRequest ==
  /\ isScanning = FALSE
  /\ isStarting = FALSE
  /\ phase = "initializing"
  /\ progress = 0
  /\ countdownSeconds = Null
  /\ platforms = <<>>
  /\ lastResult = <<>>
  /\ currentView = "main"
  /\ dailyUsage = InitialUsage
  /\ usageRequests \in {0, 1}
  /\ selectedProductId \in ProductIds
  /\ usageReplies = <<>>
  /\ InitListeners
  /\ InitRealtime
  /\ InitSession
  /\ eventQueue = <<>>
  /\ platformAuthStatus \in [StartAuthKeys -> BOOLEAN]

NextRequest ==
  \/ StartScan
  \/ \E usage \in StartUsages : StartScanUsageLoaded(usage)
  \/ StartScanPromptsLoaded(OnePrompt)
  \/ StartScanRegionsLoaded(LocalRegions)
  \/ StartScanStarted
  \/ \E usage \in StartUsages : LoadDailyUsageResolved(usage)
  \/ HideMessage

SpecRequest == InitRequest /\ [][NextRequest]_vars

\* startScan calls whose commands all settle: every awaited command is
\* resolved or rejected in the end, along every path of the call
NextSettle ==
  \/ StartScan
  \/ \E usage \in StartUsages : StartScanUsageLoaded(usage)
  \/ StartScanUsageFailed
  \/ \E promptData \in {NoPromptData, OnePrompt} :
       StartScanPromptsLoaded(promptData)
  \/ StartScanPromptsFailed
  \/ \E promptRegions \in SessionRegions :
       StartScanRegionsLoaded(promptRegions)
  \/ StartScanStarted
  \/ StartScanCaught(FailedText)
  \/ CancelScan
  \/ CancelResolved
  \/ HideMessage

\* a command startScan awaits settles
CommandSettles ==
  \/ \E usage \in StartUsages : StartScanUsageLoaded(usage)
  \/ StartScanUsageFailed
  \/ \E promptData \in {NoPromptData, OnePrompt} :
       StartScanPromptsLoaded(promptData)
  \/ StartScanPromptsFailed
  \/ \E promptRegions \in SessionRegions :
       StartScanRegionsLoaded(promptRegions)
  \/ StartScanStarted
  \/ StartScanCaught(FailedText)

SpecSettle == InitEvents /\ [][NextSettle]_vars /\ WF_vars(CommandSettles)

\* scans of the user and of the backend: the user starts and cancels scans
\* while the backend begins scans of its own, announces them and reports
\* their completion
NextAutoScan ==
  \/ StartScan
  \/ StartScanUsageLoaded(UnlimitedUsage)
  \/ StartScanPromptsLoaded(OnePrompt)
  \/ StartScanRegionsLoaded(LocalRegions)
  \/ StartScanStarted
  \/ EmitStarted
  \/ \E scan \in 1..MaxScans, result \in SessionResults :
       Emit(Event(scan, "scan:complete", result))
  \/ DeliverEvent
  \/ CancelScan
  \/ CancelResolved
  \/ LoadDailyUsageRejected
  \/ ScheduleSettled(Undefined)

SpecAutoScan == InitEvents /\ [][NextAutoScan]_vars

\* scans started anew: the user starts and cancels scans while the backend
\* answers the commands, accepting or rejecting them, and emits the
\* events of the scans begun
NextRestart ==
  \/ StartScan
  \/ StartScanUsageLoaded(UnlimitedUsage)
  \/ StartScanPromptsLoaded(OnePrompt)
  \/ StartScanPromptsFailed
  \/ StartScanRegionsLoaded(LocalRegions)
  \/ StartScanStarted
  \/ StartScanCaught(FailedText)
  \/ CancelScan
  \/ CancelResolved
  \/ CancelRejected
  \/ EmitScanEvent
  \/ \E scan \in 1..MaxScans :
       \/ Emit(Event(scan, "scan:error", ObjectError(FailedText)))
       \/ Emit(Event(scan, "scan:countdown", MaxCountdown))
  \/ DeliverEvent
  \/ LoadDailyUsageRejected
  \/ ScheduleSettled(Undefined)

SpecRestart == InitEvents /\ [][NextRestart]_vars

\* the letter in upper case
UpperOf(c) ==
  IF \E k \in DOMAIN LowerCaseLetters : LowerCaseLetters[k] = c
  THEN UpperCaseLetters[CHOOSE k \in DOMAIN LowerCaseLetters :
                          LowerCaseLetters[k] = c]
  ELSE c

\* 'cancel' in every mix of upper and lower case, and with one letter
\* missing
CancelSpellings ==
  {[i \in DOMAIN CancelWord |->
      IF i \in upper THEN UpperOf(CancelWord[i]) ELSE CancelWord[i]] :
     upper \in SUBSET DOMAIN CancelWord}
NearSpellings ==
  {SubSeq(word, 1, i - 1) \o SubSeq(word, i + 1, Len(word)) :
     word \in CancelSpellings,
     i \in DOMAIN CancelWord}

\* what surrounds the word: up to MaxPad characters
PadTexts == UNION {[1..n -> {" ", "x"}] : n \in 0..MaxPad}

ScanCancelledByUser ==
  <<"S", "c", "a", "n", " ", "c", "a", "n", "c", "e", "l", "l", "e", "d",
    " ", "b", "y", " ", "u", "s", "e", "r">>
NetworkRequestFailed ==
  <<"N", "e", "t", "w", "o", "r", "k", " ", "r", "e", "q", "u", "e", "s",
    "t", " ", "f", "a", "i", "l", "e", "d">>

\* the message texts of the scan:error payloads, and the payloads: each
\* text as a plain string and as the message of an object, and an object
\* without a message
ErrorTexts ==
  {before \o word \o after :
     before \in PadTexts, word \in CancelSpellings \cup NearSpellings,
     after \in PadTexts}
    \cup {ScanCancelledByUser, NetworkRequestFailed, <<>>}
ErrorPayloads ==
  {StringError(text) : text \in ErrorTexts}
    \cup {ObjectError(text) : text \in ErrorTexts}

\* a scan announced by the backend is running; one arbitrary scan:error
\* payload is emitted and then delivered
InitErrorFold ==
  /\ isScanning = TRUE
  /\ isStarting = FALSE
  /\ phase = "initializing"
  /\ progress = 0
  /\ countdownSeconds = Null
  /\ platforms = ResetStates
  /\ lastResult = <<>>
  /\ currentView = "scanning"
  /\ InitProducts
  /\ InitListeners
  /\ InitRealtime
  /\ modals = [message |-> NoMessage, authRequired |-> FALSE]
  /\ authRequiredData = {}
  /\ promptCount = 0
  /\ scheduleInfo = Null
  /\ startScanPc = "idle"
  /\ startScanFrame = NoFrame
  /\ invoked = <<>>
  /\ cancelRequests = [inFlight |-> 0, settled |-> "none"]
  /\ scheduleWaits = 0
  /\ scanSeq = 1
  /\ cancelledScans = {}
  /\ pendingEvents \in
       {<<Event(1, "scan:error", error)>> : error \in ErrorPayloads}
  /\ eventQueue = <<>>

NextErrorFold == DeliverEvent

SpecErrorFold == InitErrorFold /\ [][NextErrorFold]_vars



----------------------------------------------------------------------------
(* Properties of the progress fold.                                        *)

\* the sum of one counter over the entries of a map, a missing counter
\* (or a missing entry) counted as 0
CounterOf(map, id, field) ==
  IF id \in DOMAIN map /\ map[id][field] # Undefined THEN map[id][field] ELSE 0
SumOf(map, field) ==
  CounterOf(map, "chatgpt", field) + CounterOf(map, "claude", field)

\* round(n / d) in exact arithmetic, a tie going up
RoundHalfUp(n, d) == (2 * n + d) \div (2 * d)

\* n / d lies exactly half-way between two integers
IsTie(n, d) == (2 * n) % (2 * d) = d

\* the payload has been delivered (SpecFold)
Delivered == eventQueue = <<>>

\* C1, as claimed: for every payload whose aggregate total is > 0 the
\* overall progress is round(50*S/T + 50*C/T), S, C and T the sums of
\* submitted, collected and total over the payload's platforms.
C1_ExactRound ==
  (Delivered /\ SumOf(platforms, "total") > 0) =>
    progress = RoundHalfUp(50 * SumOf(platforms, "submitted")
                             + 50 * SumOf(platforms, "collected"),
                           SumOf(platforms, "total"))

\* C1, amended: the overall progress is that rounded value, except that it
\* may be one less when 50*S/T + 50*C/T is exactly half-way between two
\* integers (the double-precision sum can fall just below the tie); one
\* platform with total 10, submitted 10 gives 50 with collected 0 and 100
\* with collected 10.
C1_RoundedUpToTies ==
  (Delivered /\ SumOf(platforms, "total") > 0) =>
    LET S == SumOf(platforms, "submitted")
        C == SumOf(platforms, "collected")
        T == SumOf(platforms, "total")
        r == RoundHalfUp(50 * S + 50 * C, T)
    IN /\ progress \in {r - 1, r}
       /\ progress = r - 1 => IsTie(50 * S + 50 * C, T)
       /\ (S = 10 /\ T = 10 /\ C = 0) => progress = 50
       /\ (S = 10 /\ T = 10 /\ C = 10) => progress = 100

\* C1, witness: the payload of one platform with total 10, submitted 10,
\* collected 0 has been folded to 50.
C1_Witness ==
  /\ Delivered
  /\ DOMAIN platforms = {"chatgpt"}
  /\ platforms["chatgpt"].total = 10
  /\ platforms["chatgpt"].submitted = 10
  /\ platforms["chatgpt"].collected = 0
  /\ progress = 50

\* every platform entry of the payload has total = 0
AllTotalsZero(p) ==
  /\ p.hasPlatforms
  /\ DOMAIN p.platforms # {}
  /\ \A id \in DOMAIN p.platforms : p.platforms[id].total = 0

\* C2, as claimed: after the scan:progress handler processes a payload in
\* which every platform has total = 0, the overall progress is 0, whatever
\* it was before.
C2_ZeroTotalGivesZero ==
  [][\A p \in ProgressPayloads :
       (AllTotalsZero(p) /\ ScanProgress(p)) => progress' = 0]_vars

\* C3, as claimed: the overall progress the scan store exposes lies in
\* 0..100 after any payloads with non-negative counters, also ones with
\* submitted > total or collected > total.
C3_ProgressInRange == progress \in 0..100

\* C4: a scan:progress payload with countdownSeconds = 0 leaves the stored
\* countdown 0, and the scanning view shows the countdown block with 0.
C4_ZeroCountdownShown ==
  [][\A p \in ProgressPayloads :
       (p.countdownSeconds = 0 /\ ScanProgress(p)) =>
         (countdownSeconds' = 0 /\ CountdownShown' /\ CountdownText' = 0)]_vars

\* C4, witness: a scan is shown in phase collecting with the countdown
\* block displaying 0.
C4_Witness ==
  /\ isScanning /\ currentView = "scanning" /\ phase = "collecting"
  /\ countdownSeconds = 0 /\ CountdownShown /\ CountdownText = 0

\* C5, as claimed: a scan:progress payload that omits countdownSeconds
\* clears any earlier countdown: afterwards the stored countdown is null
\* and the countdown block is hidden.
C5_OmittedCountdownCleared ==
  [][\A p \in ProgressPayloads :
       (p.countdownSeconds = Undefined /\ ScanProgress(p)) =>
         (countdownSeconds' = Null /\ ~CountdownShown')]_vars

\* C6: after a scan:progress payload that carries a platforms map the
\* stored map equals the payload's map; an id that had an entry before and
\* is absent from the payload has none afterwards.
C6_SnapshotReplaces ==
  [][\A p \in ProgressPayloads :
       (p.hasPlatforms /\ ScanProgress(p)) =>
         /\ platforms' = p.platforms
         /\ \A id \in DOMAIN platforms \ DOMAIN p.platforms :
              id \notin DOMAIN platforms']_vars

\* C6, witness: after a reset gave every known platform an entry, a
\* payload without claude has left chatgpt's entry alone.
C6_Witness ==
  /\ isScanning
  /\ DOMAIN platforms = {"chatgpt"}
  /\ platforms["chatgpt"].status = "collecting"

----------------------------------------------------------------------------
(* Properties of the handler registration.                                 *)

\* C7, as claimed: whatever calls of setupEventListeners were made and
\* however they interleaved (a call during another call's awaits, a call
\* after a call that failed part-way), once a call has completed the
\* registrations and no call is in progress each of the eight events has
\* exactly one handler registered.
C7_ExactlyOneHandler ==
  (listenersSetup /\ \A c \in SetupCalls : setupCalls[c].at # "awaiting") =>
    \A e \in EventSet : handlers[e] = 1

----------------------------------------------------------------------------
(* Properties of the debounced refresh.                                    *)

Notifications == {i \in DOMAIN timeline : timeline[i].kind = "notify"}
Refreshes == {i \in DOMAIN timeline : timeline[i].kind = "refresh"}

\* notification i ends its burst: no later one comes less than 500 ms
\* after it
LastOfBurst(i) ==
  \A j \in Notifications :
    j > i => timeline[j].at - timeline[i].at >= DebounceWindow

\* the window that notification i opened has passed
WindowPassed(i) == now > timeline[i].at + DebounceWindow

\* the refreshes issued 500 ms after notification i
RefreshesFor(i) ==
  {k \in Refreshes : k > i /\ timeline[k].at = timeline[i].at + DebounceWindow}

\* the timer notification i set was cancelled by cleanupSubscriptions
Cancelled(i) ==
  \E j \in DOMAIN timeline :
    /\ j > i
    /\ timeline[j].kind = "cancel"
    /\ \A k \in (i + 1)..(j - 1) : timeline[k].kind = "cancel"

\* every refresh comes 500 ms after the last notification of a burst
RefreshesFollowBursts ==
  \A k \in Refreshes :
    \E i \in Notifications : LastOfBurst(i) /\ k \in RefreshesFor(i)

----------------------------------------------------------------------------
(* Properties of the quota snapshot and the scan-start gates.              *)

\* C9, as claimed: whenever dailyUsage.isUnlimited is true the quota check
\* of startScan, canScan of MainView and canScan of ScanControls all
\* permit a scan (the product, authentication and not-scanning conditions
\* of ScanControls given), whatever remaining and effectiveRemaining are.
C9_UnlimitedPassesEveryGate ==
  dailyUsage.isUnlimited =>
    /\ ~StartScanQuotaExhausted
    /\ MainViewCanScan
    /\ (selectedProductId # NoProduct /\ hasAnyAuth /\ ~isScanning) =>
         ScanControlsCanScan

\* the numeric fields of the quota snapshot
QuotaFields ==
  {"current", "limit", "remaining", "effectiveRemaining", "pendingEvaluations"}

\* C10, as claimed: when a check_daily_usage response that omits a quota
\* field is applied to a populated snapshot, that field of dailyUsage
\* keeps its prior value.
C10_OmittedFieldKept ==
  [][(Len(usageReplies) = 1 /\ usageReplies' = <<>>) =>
       \A f \in QuotaFields :
         Head(usageReplies)[f] = Undefined => dailyUsage'[f] = dailyUsage[f]]_vars

----------------------------------------------------------------------------
(* Properties of the scan session.                                         *)

\* the step in which the check_daily_usage command of startScan's
\* loadDailyUsage() call fails
UsageLoadFails ==
  /\ startScanPc = "loadDailyUsage"
  /\ startScanPc' # startScanPc
  /\ invoked'[1].outcome = "rejected"

\* C11: when check_daily_usage fails, loadDailyUsage leaves every field of
\* dailyUsage as it was, shows no modal, and returns normally to its caller:
\* startScan goes on to load the prompt count
C11_FailedLoadKeepsUsage ==
  [][UsageLoadFails =>
       /\ dailyUsage' = dailyUsage
       /\ modals' = modals
       /\ authRequiredData' = authRequiredData
       /\ isStarting'
       /\ startScanPc' = "loadProductPromptCount"
       /\ invoked'[Len(invoked')] =
            Command("fetch_extension_prompts", "pending")]_vars

\* a failed load after an earlier load had replaced the initial snapshot
C11_Witness ==
  /\ startScanPc = "loadProductPromptCount"
  /\ invoked[1].outcome = "rejected"
  /\ dailyUsage # InitialUsage
  /\ ~modals.message.visible

\* the step in which the listener of the named event runs
Delivers(name) ==
  /\ pendingEvents # <<>>
  /\ Head(pendingEvents).name = name
  /\ pendingEvents' = Tail(pendingEvents)

\* C12: on scan:started with no scan marked active, the scan is marked
\* active, the session is reset (progress 0, phase initializing, countdown
\* null, lastResult null, every known platform pending with zero counters)
\* and the view is scanning; with a scan already active, the flag, the
\* session and the view are unchanged; in both cases loadDailyUsage is called
C12_ScanStartedResetsOnce ==
  [][Delivers("scan:started") =>
       /\ ~isScanning =>
            /\ isScanning'
            /\ progress' = 0
            /\ phase' = "initializing"
            /\ countdownSeconds' = Null
            /\ lastResult' = <<>>
            /\ platforms' =
                 [id \in PlatformIds |->
                    [status |-> "pending", total |-> 0, submitted |-> 0,
                     collected |-> 0]]
            /\ currentView' = "scanning"
       /\ isScanning =>
            UNCHANGED <<isScanning, phase, progress, countdownSeconds,
                        platforms, lastResult, currentView>>
       /\ usageRequests' = usageRequests + 1]_vars

\* a session begun by scan:started alone (startScan has invoked nothing),
\* with its quota refresh in flight
C12_Witness ==
  /\ isScanning
  /\ invoked = <<>>
  /\ currentView = "scanning"
  /\ lastResult = <<>>
  /\ platforms = ResetStates
  /\ usageRequests > 0
  /\ pendingEvents = <<>>

\* the text holds the letters c, a, n, c, e, l in a row, each in either
\* case
HoldsCancel(text) ==
  \E i \in 0..(Len(text) - Len(CancelWord)) :
    \A j \in DOMAIN CancelWord :
      text[i + j] \in {CancelWord[j], UpperOf(CancelWord[j])}

\* C13: the scan:error handler shows the payload's message (the string
\* itself, or the message of the object) as a cancellation -- title 'Scan
\* Cancelled', type info -- exactly when the message contains 'cancel' in
\* any mix of cases, and otherwise as a failure -- title 'Scan Error', type
\* error; 'Scan cancelled by user' is informational and 'Network request
\* failed' is an error
C13_CancelClassified ==
  [][Delivers("scan:error") =>
       LET error == Head(pendingEvents).payload
           shown == modals'.message
       IN /\ (error.isString \/ error.message # <<>>) =>
               /\ shown.visible
               /\ shown.message = error.message
               /\ HoldsCancel(error.message) =>
                    shown.title = "Scan Cancelled" /\ shown.type = "info"
               /\ ~HoldsCancel(error.message) =>
                    shown.title = "Scan Error" /\ shown.type = "error"
          /\ error.message = ScanCancelledByUser => shown.type = "info"
          /\ error.message = NetworkRequestFailed => shown.type = "error"]_vars

\* a message spelt with capitals was shown as a cancellation
C13_Witness ==
  /\ pendingEvents = <<>>
  /\ modals.message.visible
  /\ modals.message.title = "Scan Cancelled"
  /\ modals.message.type = "info"
  /\ ~Includes(modals.message.message, CancelWord)
  /\ ~isScanning

\* the steps in which start_scan and cancel_scan are rejected
StartCommandFails ==
  /\ startScanPc = "startScan"
  /\ startScanPc' = "idle"
  /\ invoked'[Len(invoked')].outcome = "rejected"
CancelCommandFails ==
  /\ cancelRequests'.inFlight = cancelRequests.inFlight - 1
  /\ cancelRequests'.settled = "rejected"

\* C14: every scan failure -- a scan:error event, a rejected start_scan, a
\* rejected cancel_scan -- ends with the message modal visible, isScanning
\* false and the main view
C14_EveryFailureShown ==
  [][(Delivers("scan:error") \/ StartCommandFails \/ CancelCommandFails) =>
       /\ modals'.message.visible
       /\ ~isScanning'
       /\ currentView' = "main"]_vars

LateTerminalEvent ==
  /\ Delivers("scan:complete") \/ Delivers("scan:error")
  /\ Head(pendingEvents).scan \in cancelledScans

\* C16: a scan:complete or scan:error event that arrives for a scan the
\* user has cancelled never leaves isScanning true and never leaves the
\* scanning view shown
C16_LateTerminalNotScanning ==
  [][LateTerminalEvent => ~isScanning' /\ currentView' # "scanning"]_vars

\* the one scan was cancelled (main view) and its scan:complete arrived
\* afterwards
C16_Witness ==
  /\ scanSeq = 1
  /\ cancelledScans = {1}
  /\ cancelRequests = [inFlight |-> 0, settled |-> "resolved"]
  /\ pendingEvents = <<>>
  /\ lastResult \in SessionResults
  /\ currentView = "complete"
  /\ ~isScanning

\* the step in which an event of a cancelled scan is handled while a scan
\* begun after the cancellation is running
LateEventInNewSession ==
  /\ \/ Delivers("scan:progress")
     \/ Delivers("scan:complete")
     \/ Delivers("scan:error")
  /\ Head(pendingEvents).scan \in cancelledScans
  /\ scanSeq \notin cancelledScans
  /\ isScanning

\* C17: a scan:progress, scan:complete or scan:error event of a cancelled
\* scan that arrives after a new scan was started leaves isScanning, the
\* phase, the progress, the platform states, lastResult and the view of the
\* new session unchanged
C17_LateEventIgnored ==
  [][LateEventInNewSession =>
       UNCHANGED <<isScanning, phase, progress, platforms, lastResult,
                   currentView>>]_vars

\* C18: over scan:progress payloads for the same platforms whose totals stay
\* the same and whose submitted and collected counters never decrease, the
\* overall progress after a payload is never below the progress before it
C18_ProgressNeverDrops == [][progress' >= progress]_vars

\* both reports were handled, the second over a total of 12 tasks with
\* progress strictly between 0 and 100
C18_Witness ==
  /\ eventQueue = <<>>
  /\ TotalOf(platforms, "total") = 12
  /\ progress \in 1..99

\* C19 as stated: each known phase shows its label and every other phase
\* value shows 'Processing...'
C19_UnknownShowsProcessing ==
  /\ phase \in DOMAIN PHASE_DISPLAY_TEXT =>
       phaseDisplayText = PHASE_DISPLAY_TEXT[phase]
  /\ phase \notin DOMAIN PHASE_DISPLAY_TEXT =>
       phaseDisplayText = "Processing..."

\* C19: each of the six known phases shows its fixed label; a phase the
\* table does not know (and Object.prototype does not name) is shown as the
\* phase string itself; the stored phase is never empty, so 'Processing...'
\* is never the text
C19_UnknownShownAsIs ==
  /\ phase = "initializing" => phaseDisplayText = "Initializing..."
  /\ phase = "submitting" => phaseDisplayText = "Submitting prompts..."
  /\ phase = "waiting" => phaseDisplayText = "Waiting for responses..."
  /\ phase = "collecting" => phaseDisplayText = "Collecting responses..."
  /\ phase = "complete" => phaseDisplayText = "Complete"
  /\ phase = "cancelled" => phaseDisplayText = "Cancelled"
  /\ phase \notin DOMAIN PHASE_DISPLAY_TEXT \cup DOMAIN ObjectPrototype =>
       phaseDisplayText = phase
  /\ phase # NoPhase
  /\ phaseDisplayText # "Processing..."

\* a payload with a phase the table does not know was handled
C19_Witness ==
  /\ eventQueue = <<>>
  /\ phase = "paused"
  /\ phaseDisplayText = "paused"

\* the commands the startScan call has invoked, in order
CommandsOf(calls) == [i \in DOMAIN calls |-> calls[i].command]

\* the step in which startScan shows a blocking modal for a precondition
\* that fails -- the auth-required modal, or the warning about the quota
\* or the prompts -- and returns
PreconditionFails ==
  /\ startScanPc' = "idle"
  /\ \/ ~modals.authRequired /\ modals'.authRequired
     \/ /\ modals'.message # modals.message
        /\ modals'.message.visible
        /\ modals'.message.type = "warning"

\* C20 as stated: when startScan shows the modal of a failed precondition
\* and returns, the call has invoked no backend command
C20_NoCommandBeforeModal ==
  [][PreconditionFails => invoked' = <<>>]_vars

\* C20: when startScan shows the modal of a failed precondition and returns,
\* it has not invoked start_scan; with no platform authenticated at all it
\* has invoked nothing; the quota and prompt warnings come after
\* check_daily_usage and fetch_extension_prompts have settled; the
\* auth-required modal for the regions of the prompts comes after
\* get_prompt_target_regions as well
C20_NoStartBeforeModal ==
  [][PreconditionFails =>
       /\ ~isStarting'
       /\ UNCHANGED <<isScanning, scanSeq>>
       /\ startScanPc = "idle" =>
            /\ ~hasAnyAuth
            /\ invoked' = <<>>
       /\ startScanPc = "loadProductPromptCount" =>
            /\ modals'.message.title \in {"Cannot Start Scan", "No Prompts"}
            /\ CommandsOf(invoked') =
                 <<"check_daily_usage", "fetch_extension_prompts">>
       /\ startScanPc = "getPromptTargetRegions" =>
            CommandsOf(invoked') =
              <<"check_daily_usage", "fetch_extension_prompts",
                "get_prompt_target_regions">>
       /\ startScanPc \in {"idle", "loadProductPromptCount",
                            "getPromptTargetRegions"}]_vars

\* the quota warning is up and the call has returned after its two loads
C20_Witness ==
  /\ startScanPc = "idle"
  /\ ~isStarting
  /\ modals.message.visible
  /\ modals.message.title = "Cannot Start Scan"
  /\ CommandsOf(invoked) = <<"check_daily_usage", "fetch_extension_prompts">>

\* steps in which fetch_extension_prompts, awaited by startScan's
\* loadProductPromptCount, is rejected, and in which get_schedule_info is
\* rejected
PromptLoadFails ==
  /\ startScanPc = "loadProductPromptCount"
  /\ startScanPc' # startScanPc
  /\ invoked'[2].outcome = "rejected"
ScheduleLoadFails ==
  /\ scheduleWaits' = scheduleWaits - 1

\* C21: a failed fetch_extension_prompts leaves the prompt count and
\* dailyUsage as they were, a failed get_schedule_info leaves scheduleInfo
\* as it was, and neither shows a message (the step of startScan in which
\* the prompt load settles goes on to startScan's own checks, whose
\* warnings are not the loader's: the modals are compared for the schedule
\* load, which is followed by a quota refresh only)
C21_FailedLoadsKeepState ==
  [][/\ PromptLoadFails =>
          /\ promptCount' = promptCount
          /\ dailyUsage' = dailyUsage
     /\ ScheduleLoadFails =>
          /\ scheduleInfo' = scheduleInfo
          /\ modals' = modals]_vars

\* C22: in every state of the products store dailyUsage.effectiveRemaining
\* is at most dailyUsage.remaining, the responses that carry both fields
\* satisfying the relation themselves
C22_EffectiveWithinRemaining ==
  dailyUsage.effectiveRemaining <= dailyUsage.remaining

\* the session is terminal: its scan:complete was handled (the complete
\* view) or its scan was cancelled (the main view), and no scan has been
\* marked active since
SessionTerminal ==
  /\ ~isScanning
  /\ \/ currentView = "complete" /\ lastResult # <<>>
     \/ currentView = "main" /\ scanSeq \in cancelledScans

\* C23: once the session is terminal, a scan:progress or scan:countdown
\* event leaves the phase, the progress, the platform states and the
\* countdown unchanged
C23_TerminalSessionInert ==
  [][(SessionTerminal /\
      (Delivers("scan:progress") \/ Delivers("scan:countdown"))) =>
       UNCHANGED <<phase, progress, platforms, countdownSeconds>>]_vars

\* the step in which checkAuthStatus finds a scan running
FindsScanRunning ==
  /\ invoked' = <<Command("is_scan_running", "true")>>
  /\ UNCHANGED <<pendingEvents, cancelRequests, usageRequests,
                 scheduleWaits>>

\* C24: when checkAuthStatus finds a scan running it shows the scanning
\* view and resynchronizes the session, so that isScanning is true before
\* any further scan:progress event arrives
C24_RunningScanResynchronized ==
  [][FindsScanRunning => currentView' = "scanning" /\ isScanning']_vars

\* C28: the scanning view is shown only while isScanning is true
C28_ScanningViewOnlyWhileScanning ==
  currentView = "scanning" => isScanning

\* the response to the command issued first arrives after the response to
\* the command issued second has been applied
EarlierArrivesLast ==
  /\ Len(usageReplies) = 2
  /\ usageReplies[1] # Arrived
  /\ usageReplies[2] = Arrived
  /\ usageReplies'[1] = Arrived

\* C25: commands in flight together write disjoint state, so the order of
\* arrival does not matter: a response that arrives out of order leaves
\* dailyUsage as the arrival in order of issue leaves it
C25_ArrivalOrderImmaterial ==
  [][EarlierArrivesLast => dailyUsage' = dailyUsage]_vars

\* a scan:progress event omits the platform id, reported as collecting
\* before
OmitsCollecting(id) ==
  /\ id \in DOMAIN platforms
  /\ platforms[id].status = "collecting"
  /\ eventQueue # <<>>
  /\ eventQueue' = Tail(eventQueue)
  /\ Head(eventQueue).hasPlatforms
  /\ id \notin DOMAIN Head(eventQueue).platforms

\* C26 as stated: the omitted platform is no longer in the grid
C26_OmittedPlatformRemoved ==
  [][\A id \in PlatformIds :
       OmitsCollecting(id) => id \notin DOMAIN PlatformGrid(platforms')]_vars

\* C26: after a scan:progress event whose platforms map omits a platform
\* reported as collecting before, the grid still holds the platform's item,
\* which shows no stale data: status pending, progress 0, count 0/0
C26_OmittedPlatformShownPending ==
  [][\A id \in PlatformIds :
       OmitsCollecting(id) =>
         /\ id \in DOMAIN PlatformGrid(platforms')
         /\ PlatformGrid(platforms')[id] = PendingItem]_vars

\* both events delivered, the second without chatgpt, after the first had
\* reported every platform
C26_Witness ==
  /\ eventQueue = <<>>
  /\ "chatgpt" \notin DOMAIN platforms
  /\ "claude" \in DOMAIN platforms
  /\ PlatformGrid(platforms)["chatgpt"] = PendingItem
  /\ PlatformGrid(platforms)["claude"].status = "collecting"

\* the step in which startScan invokes the start_scan command
InvokesStartScan ==
  /\ startScanPc # "startScan"
  /\ startScanPc' = "startScan"

\* C27: start_scan is never invoked while isScanning is already true,
\* whatever the interleaving of startScan calls and scan:started events
C27_NoStartWhileScanning ==
  [][InvokesStartScan => ~isScanning]_vars

\* the sequence s begins the sequence t
IsPrefix(s, t) == Len(s) <= Len(t) /\ s = SubSeq(t, 1, Len(s))

\* C29: whenever startScan invokes start_scan the prompt count is above 0,
\* the platforms argument is a non-empty prefix of the authenticated
\* platforms, and maxTests is null exactly when the plan is unlimited and
\* otherwise is the availableTests the call read, above 0
C29_StartRequestSound ==
  [][InvokesStartScan =>
       LET request == startScanFrame'.request
       IN /\ promptCount' > 0
          /\ request.platforms # <<>>
          /\ IsPrefix(request.platforms, AuthPlatformList')
          /\ (request.maxTests = Null) <=> dailyUsage'.isUnlimited
          /\ request.maxTests # Null =>
               /\ request.maxTests = startScanFrame'.availableTests
               /\ request.maxTests > 0]_vars

\* C30: every startScan call that sets isStarting sets it back to false in
\* the end, the commands it awaits all settling
C30_StartingEnds == isStarting ~> ~isStarting

\* a call that set isStarting has returned after start_scan resolved
C30_Witness ==
  /\ ~isStarting
  /\ startScanPc = "idle"
  /\ invoked # <<>>
  /\ invoked[Len(invoked)] = Command("start_scan", "resolved")

====
